---- MODULE Spec2Model ----
(***************************************************************************)
(* Model of the real-time scheduling core of the bass-practice trainer:    *)
(*   - useRecordingMetronome (look-ahead beat scheduler with pre-roll),    *)
(*     src/src/features/recording/components/MetronomeControls.jsx         *)
(*   - useLoopMode (playhead animator), src/src/hooks/useLoopMode.js       *)
(*   - usePlayerState (playback state machine), same file as the first    *)
(*   - AudioService (sample loading, playback, master gains),              *)
(*     src/src/services/AudioService.js                                    *)
(*                                                                         *)
(* Time is the audio clock in milliseconds (the source uses seconds:       *)
(* 0.1 s = 100, 25 ms = 25, 0.05 s = 50).  Tempos are chosen so that       *)
(* 60 / tempo is a whole number of milliseconds.                           *)
(*                                                                         *)
(* React semantics that the model keeps:                                   *)
(*   - state set with setX() is visible only to closures created by a      *)
(*     later render; a callback created by useCallback reads the state of  *)
(*     the render that created it.  scheduleNextBeat re-arms itself with   *)
(*     setTimeout(scheduleNextBeat, 25), and that name is bound in the     *)
(*     render that created the callback, so a timer chain keeps the tempo, *)
(*     timeSignature and isPreRoll of the render in which start() or       *)
(*     startForPlayback() was called;                                      *)
(*   - a handler runs to completion; the render that follows it is taken   *)
(*     to finish before the next handler or timer runs.                    *)
(***************************************************************************)
EXTENDS Integers, Sequences, FiniteSets, TLC

VARIABLES
    \* ---- the metronome's own audio context (audioContextRef.current: FALSE
    \*      while it is null) and its clock (currentTime), ms
    audioContextRef, now,
    \* ---- useRecordingMetronome: React state
    tempo, timeSignature, isPlaying, isPreRoll, currentBeat, preRollBeat,
    \* ---- useRecordingMetronome: refs
    nextBeatTimeRef, timerIdRef, beatCountRef, preRollCountRef,
    \* ---- pending setTimeout(scheduleNextBeat, 25) callbacks, each with the
    \*      delay left before it may run and the closure of the render that
    \*      created it
    timers,
    \* ---- observation of the metronome:
    \*      recent: the playHiHat calls of the latest run of scheduleNextBeat
    \*              that made any, preceded by the last call made before it
    \*              (calls made since the latest start/startForPlayback only);
    \*      sess: the latest start/startForPlayback call, until stop();
    \*      sessBeats: the beats
    \*      emitted since; tempoChanged: setTempo changed the tempo at some
    \*      point; lastOp: the scheduler operation that ran last
    recent, sess, sessBeats, tempoChanged, lastOp,
    \* ---- counters that bound the model: start/startForPlayback calls and
    \*      setTempo/setTimeSignature calls made so far
    nStarts, nConfig,
    \* ---- useLoopMode: the scheduler's audio context (schedulerCtx: FALSE
    \*      while getAudioContext() gives none) and its clock, ms
    schedulerCtx, audioNow,
    \* ---- useLoopMode: React state (playhead is a fraction <<num, den>>)
    playhead, highlightNoteIndex,
    \* ---- useLoopMode: refs
    rafRef, startTimeRef, lastLoopCountRef, playheadRef, tempoRef, loopLengthRef,
    \* ---- pending requestAnimationFrame(tick) callbacks (ids) and pending
    \*      50 ms retry timeouts of start() (each the delay left)
    frames, retries,
    \* ---- observation of the animator: onLoopRestart calls; loop boundaries
    \*      the playhead has crossed between observed positions; loop index of
    \*      the last observed position; the operation that ran last; seek and
    \*      tempo/loopLength changes made so far; times the scheduler has
    \*      replaced its audio context; the progress and the loop count of
    \*      the last tick, while no start, stop, seek or new context came
    \*      after it (or NoTick)
    restarts, crossed, seenLoop, loopOp, nSeeks, nLoopConfig, nContexts, lastTick,
    \* ---- useLoopMode: the isPlaying prop, as the effect that calls start()
    \*      and stop() last saw it
    loopIsPlaying,
    \* ---- usePlayerState: the reducer state (the playback state and the
    \*      countdown number) and, as observation, the last dispatch:
    \*      <<state before, event>>
    playerState, countdown, playerLast,
    \* ---- AudioService: fields.  context is 0 while this.context is null,
    \*      else the identity of the AudioContext; contextState is its state;
    \*      audioTime its currentTime (ms); buffers is the this.buffers object
    \*      (obj: its identity; bass, click: a buffer is set); masterGains the
    \*      two gain nodes (or NoGains)
    context, contextState, audioTime, isReady, samplesLoaded, buffers, masterGains,
    \* ---- AudioService: resume() calls in flight (async functions suspended
    \*      at an await)
    tasks,
    \* ---- observation of the audio service: loadSamples runs that started
    \*      fetching since the last init(); the last operation and its
    \*      outcome; the levels of the last restoreVolumes() (or NoLevels);
    \*      init() calls that created a context; the sound the last
    \*      operation built (kind of source, its setting, the node it is
    \*      connected to) or NoSound
    loads, audioLast, restored, nInits, sound,
    \* ---- observation of the audio service: the time of the last
    \*      stopAllSounds() on the master gains not yet followed by
    \*      restoreVolumes() (or NoMute)
    mutedSince,
    \* ---- the service worker (public/sw.js): the URLs held by the cache
    \*      CACHE_NAME and by the cache RUNTIME_CACHE, and, as observation,
    \*      the last fetch event it answered and what its strategy gave
    swStatic, swRuntime, swLast

metroVars == <<tempo, timeSignature, isPlaying, isPreRoll, currentBeat, preRollBeat,
               nextBeatTimeRef, timerIdRef, beatCountRef, preRollCountRef,
               timers, recent, sess, sessBeats, tempoChanged, lastOp,
               nStarts, nConfig>>

loopVars == <<schedulerCtx, audioNow, playhead, highlightNoteIndex, rafRef,
              startTimeRef, lastLoopCountRef, playheadRef, tempoRef, loopLengthRef,
              frames, retries, restarts, crossed, seenLoop, loopOp, nSeeks,
              nLoopConfig, nContexts, lastTick, loopIsPlaying>>

playerVars == <<playerState, countdown, playerLast>>

audioVars == <<context, contextState, audioTime, isReady, samplesLoaded, buffers,
               masterGains, tasks, loads, audioLast, restored, nInits, sound,
               mutedSince>>

swVars == <<swStatic, swRuntime, swLast>>

vars == <<audioContextRef, now, metroVars, loopVars, playerVars, audioVars, swVars>>

----------------------------------------------------------------------------
(* Bounds of the model *)

MaxTime == 300
MaxStarts == 2
MaxConfigChanges == 1
MaxLoopTime == 2500
MaxSeeks == 1
MaxLoopConfigChanges == 1
MaxRetries == 1
MaxContexts == 1
MaxCountdown == 2
MaxInits == 1
MaxResumes == 2
MaxAudioTime == 15

(* Inputs *)
Tempos == {200, 300}
TimeSignatures == {2, 4}
StartTimes == {550, 1500}
ClockSteps == {100}
LoopTempos == {120, 240}
LoopLengths == {1, 2}
\* seek positions, each a fraction <<num, den>>: -1/4, 1/2, 5/4
SeekPositions == {<<-1, 4>>, <<1, 2>>, <<5, 4>>}
LoopClockSteps == {500}
FrameSteps == {300}
AudioClockSteps == {5}
\* whole numbers typed in the BPM field or given to setTempo, and values the
\* BPM slider gives (min 40, max 240)
TypedTempos == {-120, 0, 200}
SliderTempos == {40, 240}
\* the volumes given to setBassVolume / setMetronomeVolume, in thousandths
VolumeLevels == {300, 1000}
\* playSound: STRING_FREQUENCIES[string] in tenths of Hz, and fret
OpenStringFrequencies == {412, 550}
Frets == {0, 5, 12, 17}
\* restoreVolumes levels <<bass, metronome>>, in thousandths
RestoreLevels == {<<700, 500>>, <<400, 200>>}

----------------------------------------------------------------------------
(* Program constants *)

LookAhead == 100
TimerDelay == 25
StartOffset == 50
DefaultTimeSignature == 4
PreRollBars == 1
NoTimer == 0
\* the number Infinity: above every time and every sum of times of the model
Infinity == 1000000000
DefaultTempo == 100
RetryDelay == 50
NoFrame == 0

----------------------------------------------------------------------------
(* Pure helpers *)

\* JavaScript % : the result takes the sign of the dividend
JsMod(a, b) == IF a >= 0 THEN a % b ELSE 0 - ((0 - a) % b)

\* Math.floor(a / b) for b > 0
FloorDiv(a, b) == IF a >= 0 THEN a \div b ELSE 0 - (((0 - a) + b - 1) \div b)

\* const secondsPerBeat = 60.0 / tempo   (in ms; 60.0 / 0 is Infinity)
SecondsPerBeat(t) ==
    IF t > 0 THEN 60000 \div t
    ELSE IF t = 0 THEN Infinity
    ELSE -(60000 \div (-t))

\* const beatInBar = beatCountRef.current % timeSignature
BeatInBar(bc, ts) == JsMod(bc, ts)

\* (variant: the accent falls on the second beat of the bar)
IsAccentOffByOne(beatInBar) == beatInBar = 1

\* const isAccent = beatInBar === 0
IsAccent(beatInBar) == beatInBar = 0

\* setCurrentBeat(beatInBar + 1)
PublishedBeat(beatInBar) == beatInBar + 1

\* (variant: the next beat time is re-anchored on the tick's clock value)
AdvanceBeatTimeFromClock(nbt, spb) == now + spb

\* (variant: the next beat time moves on by half a beat)
AdvanceBeatTimeByHalf(nbt, spb) == nbt + (spb \div 2)

\* nextBeatTimeRef.current += secondsPerBeat
AdvanceBeatTime(nbt, spb) == nbt + spb

\* preRollTotal: timeSignature * DEFAULT_CONFIG.preRollBars
PreRollTotal(ts) == ts * PreRollBars

\* the closure a render gives to scheduleNextBeat
Closure == [tempo |-> tempo, timeSignature |-> timeSignature, isPreRoll |-> isPreRoll]

\* setTimeout returns a positive id not in use
FreshTimerId(used) == CHOOSE i \in 1..(Cardinality(used) + 1) : i \notin used

----------------------------------------------------------------------------
(* useRecordingMetronome: the scheduler *)

\* playHiHat: const time = ctx.currentTime; ... noise.start(time).
\* The click is started at the clock value read when playHiHat runs; the beat
\* time computed by the scheduler (nbt) is not passed to it.
HiHatStartTime(nbt) == now

\* The refs and the state updates a run of scheduleNextBeat works on
\* (se: the session the run belongs to, n: the beats it has emitted so far).
LoopState(se, n) ==
    [sess         |-> se,
     idx          |-> n,
     out          |-> <<>>,
     nextBeatTime |-> nextBeatTimeRef,
     beatCount    |-> beatCountRef,
     preRollCount |-> preRollCountRef,
     isPreRoll    |-> isPreRoll,
     preRollBeat  |-> preRollBeat,
     currentBeat  |-> currentBeat]

\* if (preRollCountRef.current >= timeSignature * DEFAULT_CONFIG.preRollBars)
PreRollDone(prc, ts) == prc >= PreRollTotal(ts)

\* One iteration of the while loop of scheduleNextBeat, run with closure c.
LoopBody(s, c) ==
    LET spb       == SecondsPerBeat(c.tempo)
        beatInBar == BeatInBar(s.beatCount, c.timeSignature)
        isAccent  == IsAccent(beatInBar)
        prc       == s.preRollCount + 1
        done      == c.isPreRoll /\ PreRollDone(prc, c.timeSignature)
        bcAfter   == (IF done THEN 0 ELSE s.beatCount) + 1
        pcAfter   == IF c.isPreRoll THEN (IF done THEN 0 ELSE prc) ELSE s.preRollCount
        beat      == [sess      |-> s.sess,
                      idx       |-> s.idx + 1,
                      first     |-> s.out = <<>>,
                      time      |-> s.nextBeatTime,
                      soundAt   |-> HiHatStartTime(s.nextBeatTime),
                      preRoll   |-> c.isPreRoll,
                      accent    |-> isAccent,
                      bc        |-> s.beatCount,
                      ts        |-> c.timeSignature,
                      spb       |-> spb,
                      stTempo   |-> tempo,
                      stTs      |-> timeSignature,
                      published |-> IF c.isPreRoll THEN 0 ELSE PublishedBeat(beatInBar),
                      completed |-> done,
                      bcAfter   |-> bcAfter,
                      pcAfter   |-> pcAfter]
    IN  [s EXCEPT
            !.idx          = s.idx + 1,
            !.out          = Append(s.out, beat),
            !.nextBeatTime = AdvanceBeatTime(s.nextBeatTime, spb),
            !.beatCount    = bcAfter,
            !.preRollCount = pcAfter,
            !.isPreRoll    = IF done THEN FALSE ELSE s.isPreRoll,
            !.preRollBeat  = IF c.isPreRoll THEN prc ELSE s.preRollBeat,
            !.currentBeat  = IF c.isPreRoll THEN s.currentBeat ELSE PublishedBeat(beatInBar)]

\* while (nextBeatTimeRef.current < ctx.currentTime + 0.1) { ... }
RECURSIVE ScheduleLoop(_, _)
ScheduleLoop(s, c) ==
    IF s.nextBeatTime < now + LookAhead
    THEN ScheduleLoop(LoopBody(s, c), c)
    ELSE s

\* scheduleNextBeat, run with closure c on loop state s: the loop, the state
\* updates it queued, and timerIdRef.current = setTimeout(scheduleNextBeat, 25)
\* (kept: the pending timers that stay).
ScheduleNextBeat(s, c, kept) ==
    LET r  == ScheduleLoop(s, c)
        id == FreshTimerId({t.id : t \in kept} \cup {timerIdRef})
    IN  /\ nextBeatTimeRef' = r.nextBeatTime
        /\ beatCountRef' = r.beatCount
        /\ preRollCountRef' = r.preRollCount
        /\ isPreRoll' = r.isPreRoll
        /\ preRollBeat' = r.preRollBeat
        /\ currentBeat' = r.currentBeat
        /\ sessBeats' = r.idx
        /\ recent' = IF s.idx = 0 THEN r.out
                     ELSE IF r.out = <<>> THEN recent
                     ELSE IF recent = <<>> THEN r.out
                     ELSE <<recent[Len(recent)]>> \o r.out
        /\ timerIdRef' = id
        /\ timers' = kept \cup {[id |-> id, delay |-> TimerDelay, c |-> c]}

\* start(withPreRoll)
Start(withPreRoll) ==
    /\ nStarts < MaxStarts
    /\ nStarts' = nStarts + 1
    /\ LET se == [kind |-> "start", preRoll |-> withPreRoll, t0 |-> now, st |-> 0,
                  tempo |-> tempo, ts |-> timeSignature]
           s0 == [LoopState(se, 0) EXCEPT
                     !.beatCount    = 0,
                     !.preRollCount = 0,
                     !.nextBeatTime = now + StartOffset,
                     !.isPreRoll    = withPreRoll,
                     !.preRollBeat  = IF withPreRoll THEN 0 ELSE preRollBeat,
                     !.currentBeat  = 0]
       IN  /\ ScheduleNextBeat(s0, Closure, timers)
           /\ sess' = se
    /\ isPlaying' = TRUE
    /\ lastOp' = "start"
    /\ audioContextRef' = TRUE
    /\ UNCHANGED <<now, tempo, timeSignature, tempoChanged, nConfig>>

\* (variant: the beat index is rounded up)
PlaybackBeatCountCeil(st, spb) == FloorDiv(st + spb - 1, spb)

\* beatCountRef.current = Math.floor(startTime / secondsPerBeat)
PlaybackBeatCount(st, spb) == FloorDiv(st, spb)

\* nextBeatTimeRef.current = ctx.currentTime + (secondsPerBeat - (startTime % secondsPerBeat))
PlaybackFirstBeatTime(st, spb) == now + (spb - JsMod(st, spb))

\* startForPlayback(startTime)
StartForPlayback(st) ==
    /\ nStarts < MaxStarts
    /\ nStarts' = nStarts + 1
    /\ LET spb == SecondsPerBeat(tempo)
           bc  == PlaybackBeatCount(st, spb)
           se  == [kind |-> "playback", preRoll |-> FALSE, t0 |-> now, st |-> st,
                   tempo |-> tempo, ts |-> timeSignature]
           s0  == [LoopState(se, 0) EXCEPT
                     !.beatCount    = bc,
                     !.nextBeatTime = PlaybackFirstBeatTime(st, spb),
                     !.isPreRoll    = FALSE,
                     !.currentBeat  = JsMod(bc, timeSignature) + 1]
       IN  /\ ScheduleNextBeat(s0, Closure, timers)
           /\ sess' = se
    /\ isPlaying' = TRUE
    /\ lastOp' = "start"
    /\ audioContextRef' = TRUE
    /\ UNCHANGED <<now, tempo, timeSignature, tempoChanged, nConfig>>

\* no start/startForPlayback call is in effect
NoSession == [kind |-> "none", preRoll |-> FALSE, t0 |-> 0, st |-> 0,
              tempo |-> 0, ts |-> 0]

\* (variant: stop() that leaves beatCountRef alone)
StopKeepsBeatCount ==
    /\ timers' = IF timerIdRef # NoTimer
                 THEN {t \in timers : t.id # timerIdRef}
                 ELSE timers
    /\ timerIdRef' = NoTimer
    /\ isPlaying' = FALSE
    /\ isPreRoll' = FALSE
    /\ currentBeat' = 0
    /\ preRollBeat' = 0
    /\ preRollCountRef' = 0
    /\ lastOp' = IF lastOp \in {"stop", "stopAgain"} THEN "stopAgain" ELSE "stop"
    /\ sess' = NoSession
    /\ UNCHANGED <<audioContextRef, now, tempo, timeSignature, nextBeatTimeRef,
                   beatCountRef, recent, sessBeats, tempoChanged, nStarts, nConfig>>

\* stop()
Stop ==
    /\ timers' = IF timerIdRef # NoTimer
                 THEN {t \in timers : t.id # timerIdRef}
                 ELSE timers
    /\ timerIdRef' = NoTimer
    /\ isPlaying' = FALSE
    /\ isPreRoll' = FALSE
    /\ currentBeat' = 0
    /\ preRollBeat' = 0
    /\ beatCountRef' = 0
    /\ preRollCountRef' = 0
    /\ lastOp' = IF lastOp \in {"stop", "stopAgain"} THEN "stopAgain" ELSE "stop"
    /\ sess' = NoSession
    /\ UNCHANGED <<audioContextRef, now, tempo, timeSignature, nextBeatTimeRef, recent,
                   sessBeats, tempoChanged, nStarts, nConfig>>

\* setTempo(t): the state setter returned by the hook (also the initialTempo effect)
SetTempo(t) ==
    /\ t # tempo
    /\ nConfig < MaxConfigChanges
    /\ nConfig' = nConfig + 1
    /\ tempo' = t
    /\ tempoChanged' = TRUE
    /\ UNCHANGED <<audioContextRef, now, timeSignature, isPlaying, isPreRoll, currentBeat, preRollBeat,
                   nextBeatTimeRef, timerIdRef, beatCountRef, preRollCountRef,
                   timers, recent, sess, sessBeats, lastOp, nStarts>>

\* the BPM number field: onTempoChange(parseInt(e.target.value) || 60), for
\* a typed whole number; the field is disabled while the metronome plays
ParseTempoField(typed) == IF typed = 0 THEN 60 ELSE typed

TempoFieldChange(typed) ==
    /\ ~isPlaying
    /\ SetTempo(ParseTempoField(typed))

\* the BPM slider: onTempoChange(parseInt(e.target.value)), a range input
\* gives a value between its min and max
TempoSliderChange(v) ==
    /\ ~isPlaying
    /\ SetTempo(v)

\* start(withPreRoll) at any tempo: with a tempo below 0, secondsPerBeat is
\* below 0, nextBeatTime only moves back and the while loop of
\* scheduleNextBeat never ends
StartAtAnyTempo(withPreRoll) ==
    IF tempo < 0
    THEN /\ nStarts < MaxStarts
         /\ lastOp' = "hang"
         /\ audioContextRef' = TRUE
         /\ UNCHANGED <<now, tempo, timeSignature, isPlaying, isPreRoll, currentBeat,
                        preRollBeat, nextBeatTimeRef, timerIdRef, beatCountRef,
                        preRollCountRef, timers, recent, sess, sessBeats,
                        tempoChanged, nStarts, nConfig>>
    ELSE Start(withPreRoll)

\* setTimeSignature(ts)
SetTimeSignature(ts) ==
    /\ ts # timeSignature
    /\ nConfig < MaxConfigChanges
    /\ nConfig' = nConfig + 1
    /\ timeSignature' = ts
    /\ UNCHANGED <<audioContextRef, now, tempo, isPlaying, isPreRoll, currentBeat, preRollBeat,
                   nextBeatTimeRef, timerIdRef, beatCountRef, preRollCountRef,
                   timers, recent, sess, sessBeats, tempoChanged, lastOp, nStarts>>

\* a pending setTimeout(scheduleNextBeat, 25) fires: scheduleNextBeat runs
\* with the closure it was created with
TimerFires(t) ==
    /\ t \in timers
    /\ t.delay = 0
    /\ ScheduleNextBeat(LoopState(sess, sessBeats), t.c, timers \ {t})
    /\ lastOp' = "tick"
    /\ UNCHANGED <<audioContextRef, now, tempo, timeSignature, isPlaying, sess, tempoChanged,
                   nStarts, nConfig>>

\* the audio clock advances; currentTime starts at 0 when getAudioContext
\* creates the context (the first start or startForPlayback)
AdvanceClock(d) ==
    /\ audioContextRef
    /\ now + d <= MaxTime
    /\ now' = now + d
    /\ timers' = {[t EXCEPT !.delay = IF t.delay > d THEN t.delay - d ELSE 0] : t \in timers}
    /\ UNCHANGED <<audioContextRef, tempo, timeSignature, isPlaying, isPreRoll,
                   currentBeat, preRollBeat, nextBeatTimeRef, timerIdRef, beatCountRef,
                   preRollCountRef, recent, sess, sessBeats, tempoChanged, lastOp,
                   nStarts, nConfig>>

----------------------------------------------------------------------------

MetroInit(tempos) ==
    /\ audioContextRef = FALSE
    /\ now = 0
    /\ tempo \in tempos
    /\ timeSignature = DefaultTimeSignature
    /\ isPlaying = FALSE
    /\ isPreRoll = FALSE
    /\ currentBeat = 0
    /\ preRollBeat = 0
    /\ nextBeatTimeRef = 0
    /\ timerIdRef = NoTimer
    /\ beatCountRef = 0
    /\ preRollCountRef = 0
    /\ timers = {}
    /\ recent = <<>>
    /\ sess = NoSession
    /\ sessBeats = 0
    /\ tempoChanged = FALSE
    /\ lastOp = "init"
    /\ nStarts = 0
    /\ nConfig = 0


----------------------------------------------------------------------------
(* useLoopMode: the playhead animator *)

\* RHYTHM_CONFIG.beatsPerMeasure and RHYTHM_CONFIG.tripletsPerBeat
\* (config/uiConfig.js)
BeatsPerMeasure == 4
TripletsPerBeat == 3

\* (60 / tempo) * RHYTHM_CONFIG.beatsPerMeasure * loopLength   (in ms)
LoopDuration(t, len) == (60000 \div t) * BeatsPerMeasure * len

\* getLoopDuration()
GetLoopDuration == LoopDuration(tempoRef, loopLengthRef)

\* const clamped = Math.max(0, Math.min(1, position)), position = p[1] / p[2]
Clamp(p) == IF p[1] < 0 THEN <<0, 1>> ELSE IF p[1] > p[2] THEN <<1, 1>> ELSE p

\* const currentLoopCount = Math.floor(elapsed / loopDuration)
LoopCount(elapsed, ld) == FloorDiv(elapsed, ld)

\* const progress = (elapsed % loopDuration) / loopDuration
Progress(elapsed, ld) == <<JsMod(elapsed, ld), ld>>

\* a note index that counts the beats from 1
NoteIndexOneBased(progress, len) ==
    (FloorDiv(progress[1] * BeatsPerMeasure * len, progress[2]) + 1) * TripletsPerBeat

\* Math.floor(progress * beatsPerMeasure * currentLoopLength) * tripletsPerBeat
NoteIndex(progress, len) ==
    FloorDiv(progress[1] * BeatsPerMeasure * len, progress[2]) * TripletsPerBeat

\* no tick to compare the next one with
NoTick == [progress |-> <<0, 1>>, count |-> -1]

\* requestAnimationFrame returns a positive id not in use
FreshFrameId(used) == CHOOSE i \in 1..(Cardinality(used) + 1) : i \notin used

\* rafRef.current = requestAnimationFrame(tick)   (kept: the pending frames that stay)
RequestFrame(kept) ==
    LET id == FreshFrameId(kept \cup {rafRef})
    IN  /\ rafRef' = id
        /\ frames' = kept \cup {id}

\* the body of start() once the audio context exists
StartAnimation ==
    /\ startTimeRef' = audioNow
    /\ lastLoopCountRef' = 0
    /\ playheadRef' = <<0, 1>>
    /\ playhead' = <<0, 1>>
    /\ highlightNoteIndex' = 0
    /\ RequestFrame(IF rafRef # NoFrame THEN frames \ {rafRef} ELSE frames)
    /\ seenLoop' = 0
    /\ lastTick' = NoTick
    /\ UNCHANGED <<tempoRef, loopLengthRef, restarts, crossed>>

\* start() without an audio context: setTimeout(() => { ... }, 50)
ScheduleRetry(kept) ==
    /\ retries' = kept \o <<RetryDelay>>
    /\ UNCHANGED <<playhead, highlightNoteIndex, rafRef, startTimeRef, lastLoopCountRef,
                   playheadRef, tempoRef, loopLengthRef, frames, restarts, crossed,
                   seenLoop, lastTick>>

\* start()
LoopStart ==
    /\ IF schedulerCtx
       THEN StartAnimation /\ UNCHANGED retries
       ELSE Len(retries) < MaxRetries /\ ScheduleRetry(retries)
    /\ loopOp' = "start"
    /\ loopIsPlaying' = TRUE
    /\ UNCHANGED <<schedulerCtx, audioNow, nSeeks, nLoopConfig, nContexts>>

\* the retry timeout of start() fires: if (rafRef.current === null) start()
RetryFires ==
    /\ retries # <<>>
    /\ retries[1] = 0
    /\ IF rafRef = NoFrame
       THEN IF schedulerCtx
            THEN StartAnimation /\ retries' = Tail(retries)
            ELSE ScheduleRetry(Tail(retries))
       ELSE /\ retries' = Tail(retries)
            /\ UNCHANGED <<playhead, highlightNoteIndex, rafRef, startTimeRef,
                           lastLoopCountRef, playheadRef, tempoRef, loopLengthRef,
                           frames, restarts, crossed, seenLoop, lastTick>>
    /\ loopOp' = "retry"
    /\ UNCHANGED loopIsPlaying
    /\ UNCHANGED <<schedulerCtx, audioNow, nSeeks, nLoopConfig, nContexts>>

\* a tick that takes every elapsed time as one after the start
BeforeStartNever(elapsed) == FALSE

\* if (elapsed < 0): the tick runs before the start instant
BeforeStart(elapsed) == elapsed < 0

\* tick(): the frame callback f runs
LoopTick(f) ==
    /\ f \in frames
    /\ RequestFrame(frames \ {f})
    /\ IF ~schedulerCtx
       THEN UNCHANGED <<playhead, highlightNoteIndex, lastLoopCountRef, playheadRef,
                        restarts, crossed, seenLoop, lastTick>>
       ELSE LET ld       == LoopDuration(tempoRef, loopLengthRef)
                elapsed  == audioNow - startTimeRef
                progress == Progress(elapsed, ld)
                count    == LoopCount(elapsed, ld)
            IN  IF BeforeStart(elapsed)
                THEN UNCHANGED <<playhead, highlightNoteIndex, lastLoopCountRef,
                                 playheadRef, restarts, crossed, seenLoop, lastTick>>
                ELSE /\ lastLoopCountRef' =
                            IF count > lastLoopCountRef THEN count ELSE lastLoopCountRef
                     /\ restarts' =
                            IF count > lastLoopCountRef THEN restarts + 1 ELSE restarts
                     /\ playheadRef' = progress
                     /\ playhead' = progress
                     /\ highlightNoteIndex' = NoteIndex(progress, loopLengthRef)
                     /\ crossed' = IF count > seenLoop
                                   THEN crossed + (count - seenLoop) ELSE crossed
                     /\ seenLoop' = count
                     /\ lastTick' = [progress |-> progress, count |-> count]
    /\ loopOp' = "tick"
    /\ UNCHANGED loopIsPlaying
    /\ UNCHANGED <<schedulerCtx, audioNow, startTimeRef, tempoRef, loopLengthRef,
                   retries, nSeeks, nLoopConfig, nContexts>>

\* a stop() that forgets the frame it requested without cancelling it
LoopStopKeepsFrame ==
    /\ rafRef' = NoFrame
    /\ playhead' = <<0, 1>>
    /\ highlightNoteIndex' = -1
    /\ playheadRef' = <<0, 1>>
    /\ loopOp' = IF loopOp \in {"stop", "stopAgain"} THEN "stopAgain" ELSE "stop"
    /\ lastTick' = NoTick
    /\ loopIsPlaying' = FALSE
    /\ UNCHANGED <<schedulerCtx, audioNow, startTimeRef, lastLoopCountRef, tempoRef,
                   loopLengthRef, frames, retries, restarts, crossed, seenLoop, nSeeks,
                   nLoopConfig, nContexts>>

\* stop()
LoopStop ==
    /\ frames' = IF rafRef # NoFrame THEN frames \ {rafRef} ELSE frames
    /\ rafRef' = NoFrame
    /\ playhead' = <<0, 1>>
    /\ highlightNoteIndex' = -1
    /\ playheadRef' = <<0, 1>>
    /\ loopOp' = IF loopOp \in {"stop", "stopAgain"} THEN "stopAgain" ELSE "stop"
    /\ lastTick' = NoTick
    /\ loopIsPlaying' = FALSE
    /\ UNCHANGED <<schedulerCtx, audioNow, startTimeRef, lastLoopCountRef, tempoRef,
                   loopLengthRef, retries, restarts, crossed, seenLoop, nSeeks,
                   nLoopConfig, nContexts>>

\* seek(position), position = p[1] / p[2]
LoopSeek(p) ==
    /\ nSeeks < MaxSeeks
    /\ nSeeks' = nSeeks + 1
    /\ playhead' = Clamp(p)
    /\ playheadRef' = Clamp(p)
    /\ IF schedulerCtx
       THEN /\ startTimeRef' = audioNow - ((Clamp(p)[1] * GetLoopDuration) \div Clamp(p)[2])
            /\ seenLoop' = 0
       ELSE UNCHANGED <<startTimeRef, seenLoop>>
    /\ loopOp' = "seek"
    /\ lastTick' = NoTick
    /\ UNCHANGED loopIsPlaying
    /\ UNCHANGED <<schedulerCtx, audioNow, highlightNoteIndex, rafRef, lastLoopCountRef,
                   tempoRef, loopLengthRef, frames, retries, restarts, crossed,
                   nLoopConfig, nContexts>>

\* the tempo / loopLength props change: tempoRef.current = tempo,
\* loopLengthRef.current = loopLength (the effects that keep the refs in sync)
SetLoopConfig(t, len) ==
    /\ <<t, len>> # <<tempoRef, loopLengthRef>>
    /\ nLoopConfig < MaxLoopConfigChanges
    /\ nLoopConfig' = nLoopConfig + 1
    /\ tempoRef' = t
    /\ loopLengthRef' = len
    /\ seenLoop' = IF schedulerCtx /\ audioNow >= startTimeRef
                   THEN LoopCount(audioNow - startTimeRef, LoopDuration(t, len))
                   ELSE seenLoop
    /\ loopOp' = "config"
    /\ UNCHANGED loopIsPlaying
    /\ UNCHANGED <<schedulerCtx, audioNow, playhead, highlightNoteIndex, rafRef,
                   startTimeRef, lastLoopCountRef, playheadRef, frames, retries,
                   restarts, crossed, nSeeks, nContexts, lastTick>>

\* the scheduler's audio context comes into existence
ContextAvailable ==
    /\ ~schedulerCtx
    /\ schedulerCtx' = TRUE
    /\ loopOp' = "context"
    /\ UNCHANGED loopIsPlaying
    /\ UNCHANGED <<audioNow, playhead, highlightNoteIndex, rafRef, startTimeRef,
                   lastLoopCountRef, playheadRef, tempoRef, loopLengthRef, frames,
                   retries, restarts, crossed, seenLoop, nSeeks, nLoopConfig, nContexts,
                   lastTick>>

\* the scheduler's getAudioContext() gives a new AudioContext (the one it
\* had was closed): the clock the ticks read starts again at 0
ContextReplaced ==
    /\ schedulerCtx
    /\ audioNow > 0
    /\ nContexts < MaxContexts
    /\ nContexts' = nContexts + 1
    /\ audioNow' = 0
    /\ loopOp' = "newContext"
    /\ lastTick' = NoTick
    /\ UNCHANGED loopIsPlaying
    /\ UNCHANGED <<schedulerCtx, playhead, highlightNoteIndex, rafRef, startTimeRef,
                   lastLoopCountRef, playheadRef, tempoRef, loopLengthRef, frames,
                   retries, restarts, crossed, seenLoop, nSeeks, nLoopConfig>>

\* time passes: the context's clock advances (once it exists) and the retry
\* timeouts come due
LoopAdvance(d) ==
    /\ audioNow + d <= MaxLoopTime
    /\ audioNow' = IF schedulerCtx THEN audioNow + d ELSE audioNow
    /\ schedulerCtx \/ retries # <<>>
    /\ retries' = [i \in 1..Len(retries) |-> IF retries[i] > d THEN retries[i] - d ELSE 0]
    /\ loopOp' = "advance"
    /\ UNCHANGED loopIsPlaying
    /\ UNCHANGED <<schedulerCtx, playhead, highlightNoteIndex, rafRef, startTimeRef,
                   lastLoopCountRef, playheadRef, tempoRef, loopLengthRef, frames,
                   restarts, crossed, seenLoop, nSeeks, nLoopConfig, nContexts,
                   lastTick>>

LoopInitVars ==
    /\ schedulerCtx \in BOOLEAN
    /\ audioNow = 0
    /\ playhead = <<0, 1>>
    /\ highlightNoteIndex = -1
    /\ rafRef = NoFrame
    /\ startTimeRef = 0
    /\ lastLoopCountRef = 0
    /\ playheadRef = <<0, 1>>
    /\ tempoRef \in LoopTempos
    /\ loopLengthRef = 1
    /\ frames = {}
    /\ retries = <<>>
    /\ restarts = 0
    /\ crossed = 0
    /\ seenLoop = 0
    /\ loopOp = "init"
    /\ nSeeks = 0
    /\ nLoopConfig = 0
    /\ nContexts = 0
    /\ lastTick = NoTick
    /\ loopIsPlaying = FALSE

----------------------------------------------------------------------------
(* usePlayerState: the playback state machine                              *)
(* (the reducer, reducers/playerReducer.js, is taken from the              *)
(* specification's transition table; the hook's dispatchers are the        *)
(* source's)                                                               *)

PlayerStates == {"Idle", "CountingDown", "Playing", "Paused"}
PlayerEvents == {"PLAY", "PLAY_IMMEDIATE", "COUNTDOWN_COMPLETE", "PAUSE", "RESUME",
                 "STOP"}

\* setCountdown(value): the values dispatched
CountdownValues == 0..MaxCountdown

\* a reducer that lets RESUME start playback from Idle
PlayerTransitionResumeAnywhere(s, e) ==
    CASE e = "STOP" -> "Idle"
      [] e = "PLAY" /\ s = "Idle" -> "CountingDown"
      [] e = "PLAY_IMMEDIATE" /\ s = "Idle" -> "Playing"
      [] e = "COUNTDOWN_COMPLETE" /\ s = "CountingDown" -> "Playing"
      [] e = "PAUSE" /\ s = "Playing" -> "Paused"
      [] e = "RESUME" /\ s \in {"Paused", "Idle"} -> "Playing"
      [] OTHER -> s

\* playerReducer, action TRANSITION: the next playback state; an event that
\* is not valid in the state is discarded
PlayerTransition(s, e) ==
    CASE e = "STOP" -> "Idle"
      [] e = "PLAY" /\ s = "Idle" -> "CountingDown"
      [] e = "PLAY_IMMEDIATE" /\ s = "Idle" -> "Playing"
      [] e = "COUNTDOWN_COMPLETE" /\ s = "CountingDown" -> "Playing"
      [] e = "PAUSE" /\ s = "Playing" -> "Paused"
      [] e = "RESUME" /\ s = "Paused" -> "Playing"
      [] OTHER -> s

\* playerReducer, action SET_COUNTDOWN: the countdown becomes the payload
PlayerSetCountdown(payload) == payload

\* transition(event): dispatch({ type: TRANSITION, payload: { event } })
Transition(event) ==
    /\ playerState' = PlayerTransition(playerState, event)
    /\ playerLast' = <<playerState, event>>
    /\ UNCHANGED countdown

\* actions.play, playImmediate, stop, pause, resume, countdownComplete
PlayerPlay == Transition("PLAY")
PlayerPlayImmediate == Transition("PLAY_IMMEDIATE")
PlayerStop == Transition("STOP")
PlayerPause == Transition("PAUSE")
PlayerResume == Transition("RESUME")
CountdownComplete == Transition("COUNTDOWN_COMPLETE")

\* actions.countdownTick: dispatch SET_COUNTDOWN with state.countdown - 1
CountdownTick ==
    /\ countdown > -MaxCountdown
    /\ countdown' = PlayerSetCountdown(countdown - 1)
    /\ playerLast' = <<playerState, "SET_COUNTDOWN">>
    /\ UNCHANGED playerState

\* actions.setCountdown(value)
SetCountdown(value) ==
    /\ countdown' = PlayerSetCountdown(value)
    /\ playerLast' = <<playerState, "SET_COUNTDOWN">>
    /\ UNCHANGED playerState

\* initialPlayerState
PlayerInitVars ==
    /\ playerState = "Idle"
    /\ countdown = 0
    /\ playerLast = <<"Idle", "INIT">>

----------------------------------------------------------------------------
(* AudioService                                                            *)
(* Gain levels are in thousandths (0.7 = 700), times in ms (0.01 s = 10).  *)
(* A master gain is the automation timeline of its AudioParam: a sequence  *)
(* of events [kind, time, value] ordered by time.                          *)

BassLevel == 700
MetronomeLevel == 500
RampTime == 10
NoContext == 0
\* SAMPLE_CONFIG.bass.baseFrequency, in tenths of Hz
SampleBaseFrequency == 412

\* the state a new AudioContext starts in (autoplay policy)
ContextStates == {"suspended", "running"}

NoGains == [node |-> 0, bass |-> <<>>, metronome |-> <<>>]
NoLevels == <<>>
NoMute == -1

SetEvent(t, v) == [kind |-> "set", time |-> t, value |-> v]
RampEvent(t, v) == [kind |-> "ramp", time |-> t, value |-> v]

\* AudioParam.cancelScheduledValues(t): removes the events at or after t
CancelScheduledValues(ev, t) ==
    LET Before(e) == e.time < t IN SelectSeq(ev, Before)

\* insertion of an event in the timeline: it replaces an event of the same
\* kind at the same time, and otherwise goes after the events up to its time
InsertEvent(ev, e) ==
    LET Other(x) == ~(x.time = e.time /\ x.kind = e.kind)
        UpTo(x)  == Other(x) /\ x.time <= e.time
        After(x) == Other(x) /\ x.time > e.time
    IN  SelectSeq(ev, UpTo) \o <<e>> \o SelectSeq(ev, After)

\* the value of the AudioParam at time t: the value of the last event up to
\* t, or, inside a linear ramp, the interpolation between the event before
\* the ramp and the ramp's end
ValueAt(ev, t) ==
    LET UpTo(x)  == x.time <= t
        After(x) == x.time > t
        past   == SelectSeq(ev, UpTo)
        future == SelectSeq(ev, After)
    IN  IF past = <<>>
        THEN IF future = <<>> THEN 0 ELSE future[1].value
        ELSE LET prev == past[Len(past)]
             IN  IF future # <<>> /\ future[1].kind = "ramp"
                 THEN prev.value +
                      ((future[1].value - prev.value) * (t - prev.time))
                          \div (future[1].time - prev.time)
                 ELSE prev.value

\* a volume setter that glides to the volume instead of assigning it
SetGainValueByRamp(ev, v) == InsertEvent(ev, RampEvent(audioTime + RampTime, v))

\* gain.value = v: the setter is setValueAtTime(v, currentTime)
SetGainValue(ev, v) == InsertEvent(ev, SetEvent(audioTime, v))

\* stopAllSounds on one gain without cancelling what is scheduled
StopGainNoCancel(ev) ==
    InsertEvent(InsertEvent(ev, SetEvent(audioTime, ValueAt(ev, audioTime))),
                RampEvent(audioTime + RampTime, 0))

\* stopAllSounds on one gain: cancelScheduledValues(currentTime),
\* setValueAtTime(gain.value, currentTime),
\* linearRampToValueAtTime(0, currentTime + 0.01)
StopGain(ev) ==
    InsertEvent(InsertEvent(CancelScheduledValues(ev, audioTime),
                            SetEvent(audioTime, ValueAt(ev, audioTime))),
                RampEvent(audioTime + RampTime, 0))

\* a number q[1] / q[2] * 2^(q[3] / 12)
Number(num, den, semitones) == <<num, den, semitones>>

\* a source the service built and the node it is connected to
Sound(kind, value, to) == [kind |-> kind, value |-> value, to |-> to]
NoSound == Sound("none", Number(0, 1, 0), "none")

\* the record of an operation and its outcome
Did(op, out) == [op |-> op, out |-> out]

\* a resume() call: where it is suspended (pc), the context whose resume()
\* it awaits (ctx), the this.buffers object its pending assignment writes to (obj) and
\* what its loadSample calls returned (bass, click: a buffer, not null)
Task(pc, ctx, obj, bass, click) ==
    [pc |-> pc, ctx |-> ctx, obj |-> obj, bass |-> bass, click |-> click]

\* init() that builds the master gains anew on every call
AudioInitNewGains(st) ==
    /\ IF context = NoContext
       THEN /\ nInits < MaxInits
            /\ nInits' = nInits + 1
            /\ context' = nInits + 1
            /\ contextState' = st
            /\ audioTime' = 0
            /\ loads' = 0
            /\ audioLast' = Did("init", "created")
       ELSE /\ audioLast' = Did("init", "kept")
            /\ UNCHANGED <<nInits, context, contextState, audioTime, loads>>
    /\ masterGains' = [node      |-> IF context = NoContext THEN nInits + 1
                                                           ELSE masterGains.node,
                       bass      |-> <<SetEvent(0, BassLevel)>>,
                       metronome |-> <<SetEvent(0, MetronomeLevel)>>]
    /\ sound' = NoSound
    /\ mutedSince' = IF context = NoContext THEN NoMute ELSE mutedSince
    /\ UNCHANGED <<isReady, samplesLoaded, buffers, tasks, restored>>

\* init()
AudioInit(st) ==
    /\ IF context = NoContext
       THEN /\ nInits < MaxInits
            /\ nInits' = nInits + 1
            /\ context' = nInits + 1
            /\ contextState' = st
            /\ audioTime' = 0
            /\ masterGains' = [node      |-> nInits + 1,
                               bass      |-> <<SetEvent(0, BassLevel)>>,
                               metronome |-> <<SetEvent(0, MetronomeLevel)>>]
            /\ loads' = 0
            /\ audioLast' = Did("init", "created")
       ELSE /\ audioLast' = Did("init", "kept")
            /\ UNCHANGED <<nInits, context, contextState, audioTime, masterGains,
                           loads>>
    /\ sound' = NoSound
    /\ mutedSince' = IF context = NoContext THEN NoMute ELSE mutedSince
    /\ UNCHANGED <<isReady, samplesLoaded, buffers, tasks, restored>>

\* resume(), from `this.isReady = true`: the call i completes
ResumeReady(i, ts) ==
    /\ isReady' = TRUE
    /\ tasks' = [ts EXCEPT ![i] = Task("done", NoContext, 0, FALSE, FALSE)]

\* loadSamples() up to its first await, for the resume() call i
LoadSamples(i, ts) ==
    IF context = NoContext
    THEN ResumeReady(i, ts) /\ UNCHANGED <<samplesLoaded, loads>>
    ELSE /\ tasks' = [ts EXCEPT ![i] =
                          Task("fetchBass", NoContext, buffers.obj, FALSE, FALSE)]
         /\ loads' = loads + 1
         /\ UNCHANGED <<isReady, samplesLoaded>>

\* resume() after the context is running: load the samples if not loaded
ResumeLoad(i, ts) ==
    IF ~samplesLoaded
    THEN LoadSamples(i, ts)
    ELSE ResumeReady(i, ts) /\ UNCHANGED <<samplesLoaded, loads>>

\* resume() up to its first await
AudioResume ==
    /\ Len(tasks) < MaxResumes
    /\ LET i  == Len(tasks) + 1
           ts == Append(tasks, Task("ctxResume", context, 0, FALSE, FALSE))
       IN  IF context # NoContext /\ contextState = "suspended"
           THEN tasks' = ts /\ UNCHANGED <<contextState, isReady, samplesLoaded, loads>>
           ELSE ResumeLoad(i, ts) /\ UNCHANGED contextState
    /\ audioLast' = Did("resume", "called")
    /\ sound' = NoSound
    /\ UNCHANGED mutedSince
    /\ UNCHANGED <<context, audioTime, buffers, masterGains, restored, nInits>>

\* await this.context.resume() settles: the context runs, or, closed in the
\* meantime, rejects and resume() rejects with it
ContextResumed(i) ==
    /\ tasks[i].pc = "ctxResume"
    /\ IF context = tasks[i].ctx
       THEN contextState' = "running" /\ ResumeLoad(i, tasks)
       ELSE /\ tasks' = [tasks EXCEPT ![i] = Task("rejected", NoContext, 0, FALSE, FALSE)]
            /\ UNCHANGED <<contextState, isReady, samplesLoaded, loads>>
    /\ audioLast' = Did("async", "resumed")
    /\ sound' = NoSound
    /\ UNCHANGED mutedSince
    /\ UNCHANGED <<context, audioTime, buffers, masterGains, restored, nInits>>

\* loadSamples() after a loadSample call of the resume() call i returned:
\* `this.buffers.bass = await ...` writes to the buffers object named before
\* the await, then the click sample is requested; after
\* `this.buffers.metronome.click = await ...`, samplesLoaded = true and
\* resume() sets isReady
StoreSample(i, loaded) ==
    LET t == tasks[i]
        own == t.obj = buffers.obj
    IN  IF t.pc \in {"fetchBass", "decodeBass"}
        THEN /\ buffers' = IF own THEN [buffers EXCEPT !.bass = loaded] ELSE buffers
             /\ tasks' = [tasks EXCEPT ![i] =
                              Task("fetchClick", NoContext, buffers.obj, loaded, FALSE)]
             /\ UNCHANGED <<isReady, samplesLoaded>>
        ELSE /\ buffers' = IF own THEN [buffers EXCEPT !.click = loaded] ELSE buffers
             /\ samplesLoaded' = TRUE
             /\ isReady' = TRUE
             /\ tasks' = [tasks EXCEPT ![i] = Task("done", NoContext, 0, t.bass, loaded)]

\* a failed sample ends the whole load instead of leaving one buffer unset
StoreSampleOrAbort(i, loaded) ==
    IF loaded
    THEN StoreSample(i, loaded)
    ELSE /\ tasks' = [tasks EXCEPT ![i] = Task("rejected", NoContext, 0, FALSE, FALSE)]
         /\ UNCHANGED <<buffers, isReady, samplesLoaded>>

\* what loadSample() hands to loadSamples() (null after a failure)
ReturnSample(i, loaded) == StoreSample(i, loaded)

\* loadSample(): fetch and arrayBuffer settle (ok: response.ok and no error);
\* then this.context.decodeAudioData is called, which throws when the
\* context is null
FetchDone(i, ok) ==
    /\ tasks[i].pc \in {"fetchBass", "fetchClick"}
    /\ IF ok /\ context # NoContext
       THEN /\ tasks' = [tasks EXCEPT
                  ![i].pc = IF tasks[i].pc = "fetchBass" THEN "decodeBass"
                                                         ELSE "decodeClick"]
            /\ UNCHANGED <<buffers, isReady, samplesLoaded>>
       ELSE ReturnSample(i, FALSE)
    /\ audioLast' = Did("async", "fetched")
    /\ sound' = NoSound
    /\ UNCHANGED mutedSince
    /\ UNCHANGED <<context, contextState, audioTime, masterGains, loads, restored,
                   nInits>>

\* loadSample(): decodeAudioData settles (ok: it gave a buffer)
DecodeDone(i, ok) ==
    /\ tasks[i].pc \in {"decodeBass", "decodeClick"}
    /\ ReturnSample(i, ok)
    /\ audioLast' = Did("async", "decoded")
    /\ sound' = NoSound
    /\ UNCHANGED mutedSince
    /\ UNCHANGED <<context, contextState, audioTime, masterGains, loads, restored,
                   nInits>>

\* a close() that drops the context and leaves the master gains in place
AudioCloseKeepsGains ==
    /\ IF context # NoContext
       THEN /\ context' = NoContext
            /\ contextState' = "closed"
            /\ audioTime' = 0
            /\ isReady' = FALSE
            /\ samplesLoaded' = FALSE
            /\ buffers' = [obj |-> buffers.obj + 1, bass |-> FALSE, click |-> FALSE]
            /\ audioLast' = Did("close", "closed")
            /\ UNCHANGED masterGains
       ELSE /\ audioLast' = Did("close", "kept")
            /\ UNCHANGED <<context, contextState, audioTime, isReady, samplesLoaded,
                           buffers, masterGains>>
    /\ restored' = NoLevels
    /\ sound' = NoSound
    /\ mutedSince' = IF context # NoContext THEN NoMute ELSE mutedSince
    /\ UNCHANGED <<tasks, loads, nInits>>

\* close()
AudioClose ==
    /\ IF context # NoContext
       THEN /\ context' = NoContext
            /\ contextState' = "closed"
            /\ audioTime' = 0
            /\ isReady' = FALSE
            /\ samplesLoaded' = FALSE
            /\ buffers' = [obj |-> buffers.obj + 1, bass |-> FALSE, click |-> FALSE]
            /\ masterGains' = NoGains
            /\ audioLast' = Did("close", "closed")
       ELSE /\ audioLast' = Did("close", "kept")
            /\ UNCHANGED <<context, contextState, audioTime, isReady, samplesLoaded,
                           buffers, masterGains>>
    /\ restored' = NoLevels
    /\ sound' = NoSound
    /\ mutedSince' = IF context # NoContext THEN NoMute ELSE mutedSince
    /\ UNCHANGED <<tasks, loads, nInits>>

\* setBassVolume(volume)
SetBassVolume(v) ==
    /\ IF masterGains.node # 0
       THEN /\ masterGains' = [masterGains EXCEPT !.bass = SetGainValue(@, v)]
            /\ audioLast' = Did("setBassVolume", "set")
       ELSE /\ audioLast' = Did("setBassVolume", "noGain")
            /\ UNCHANGED masterGains
    /\ restored' = NoLevels
    /\ sound' = NoSound
    /\ UNCHANGED mutedSince
    /\ UNCHANGED <<context, contextState, audioTime, isReady, samplesLoaded, buffers,
                   tasks, loads, nInits>>

\* setMetronomeVolume(volume)
SetMetronomeVolume(v) ==
    /\ IF masterGains.node # 0
       THEN /\ masterGains' = [masterGains EXCEPT !.metronome = SetGainValue(@, v)]
            /\ audioLast' = Did("setMetronomeVolume", "set")
       ELSE /\ audioLast' = Did("setMetronomeVolume", "noGain")
            /\ UNCHANGED masterGains
    /\ restored' = NoLevels
    /\ sound' = NoSound
    /\ UNCHANGED mutedSince
    /\ UNCHANGED <<context, contextState, audioTime, isReady, samplesLoaded, buffers,
                   tasks, loads, nInits>>

\* stopAllSounds()
StopAllSounds ==
    /\ IF context = NoContext
       THEN /\ audioLast' = Did("stopAllSounds", "noContext")
            /\ UNCHANGED masterGains
       ELSE /\ masterGains' =
                  IF masterGains.node # 0
                  THEN [masterGains EXCEPT !.bass = StopGain(@),
                                           !.metronome = StopGain(@)]
                  ELSE masterGains
            /\ audioLast' = Did("stopAllSounds",
                                IF audioLast.op = "stopAllSounds" THEN "again"
                                                                  ELSE "stopped")
    /\ restored' = NoLevels
    /\ sound' = NoSound
    /\ mutedSince' = IF context # NoContext /\ masterGains.node # 0
                     THEN audioTime ELSE mutedSince
    /\ UNCHANGED <<context, contextState, audioTime, isReady, samplesLoaded, buffers,
                   tasks, loads, nInits>>

\* restoreVolumes(bassVolume, metronomeVolume)
RestoreVolumes(lv) ==
    /\ IF masterGains.node # 0
       THEN /\ masterGains' = [masterGains EXCEPT
                                  !.bass = SetGainValue(@, lv[1]),
                                  !.metronome = SetGainValue(@, lv[2])]
            /\ restored' = lv
            /\ audioLast' = Did("restoreVolumes", "set")
       ELSE /\ audioLast' = Did("restoreVolumes", "noGains")
            /\ UNCHANGED <<masterGains, restored>>
    /\ sound' = NoSound
    /\ mutedSince' = IF masterGains.node # 0 THEN NoMute ELSE mutedSince
    /\ UNCHANGED <<context, contextState, audioTime, isReady, samplesLoaded, buffers,
                   tasks, loads, nInits>>

\* 2^n
RECURSIVE Pow2(_)
Pow2(n) == IF n = 0 THEN 1 ELSE 2 * Pow2(n - 1)

\* a playback rate that grows by the same amount with every fret
PlaybackRateLinear(baseFreq, fret) ==
    Number(baseFreq * (12 + fret), SampleBaseFrequency * 12, 0)

\* playSampleNote(): targetFreq = baseFreq * Math.pow(2, fret / 12) and
\* playbackRate = targetFreq / bassConfig.baseFrequency, with 2^(fret/12)
\* kept as whole octaves times semitones
PlaybackRate(baseFreq, fret) ==
    Number(baseFreq * Pow2(fret \div 12), SampleBaseFrequency, fret % 12)

\* playSampleNote(): a buffer source is created and started unless the
\* buffer or the bass gain is missing
PlaySampleNote ==
    IF ~buffers.bass \/ masterGains.node = 0 THEN "noBuffer" ELSE "played"

\* playSound without the test of the buffer
PlaySoundOutcomeUnguarded(muted) ==
    IF context = NoContext \/ muted THEN "skipped" ELSE "played"

\* playSound(string, fret, time, muted): what the call does
PlaySoundOutcome(muted) ==
    IF context = NoContext \/ muted
    THEN "skipped"
    ELSE IF buffers.bass THEN PlaySampleNote ELSE "noBuffer"

\* playSound(string, fret, time, muted), baseFreq = STRING_FREQUENCIES[string]:
\* source -> envelope -> bass master gain
PlaySound(muted, baseFreq, fret) ==
    /\ audioLast' = Did("playSound", PlaySoundOutcome(muted))
    /\ sound' = IF PlaySoundOutcome(muted) = "played"
                THEN Sound("note", PlaybackRate(baseFreq, fret), "bass")
                ELSE NoSound
    /\ UNCHANGED mutedSince
    /\ UNCHANGED <<context, contextState, audioTime, isReady, samplesLoaded, buffers,
                   masterGains, tasks, loads, restored, nInits>>

\* a multiplier chosen by isDownbeat first
BeatMultiplierByDownbeat(isDownbeat, isFirstOfBeat) ==
    IF isDownbeat THEN 1400 ELSE IF isFirstOfBeat THEN 1000 ELSE 500

\* playSampleMetronome(): beatMultiplier, in thousandths
BeatMultiplier(isDownbeat, isFirstOfBeat) ==
    IF isDownbeat /\ isFirstOfBeat THEN 1400 ELSE IF isFirstOfBeat THEN 1000 ELSE 500

\* playSampleMetronome()
PlaySampleMetronome ==
    IF ~buffers.click \/ masterGains.node = 0 THEN "noBuffer" ELSE "played"

\* playMetronomeClick(time, isDownbeat, isFirstOfBeat, enabled)
PlayMetronomeClickOutcome(enabled) ==
    IF context = NoContext \/ ~enabled
    THEN "skipped"
    ELSE IF buffers.click THEN PlaySampleMetronome ELSE "noBuffer"

\* playMetronomeClick(time, isDownbeat, isFirstOfBeat, enabled):
\* source -> dynamics gain -> metronome master gain
PlayMetronomeClick(enabled, isDownbeat, isFirstOfBeat) ==
    /\ audioLast' = Did("playMetronomeClick", PlayMetronomeClickOutcome(enabled))
    /\ sound' = IF PlayMetronomeClickOutcome(enabled) = "played"
                THEN Sound("click",
                           Number(BeatMultiplier(isDownbeat, isFirstOfBeat), 1000, 0),
                           "metronome")
                ELSE NoSound
    /\ UNCHANGED mutedSince
    /\ UNCHANGED <<context, contextState, audioTime, isReady, samplesLoaded, buffers,
                   masterGains, tasks, loads, restored, nInits>>

\* a countdown beep that goes through the metronome master gain
PlayCountdownBeepViaGain(isStart) ==
    /\ audioLast' = Did("playCountdownBeep",
                        IF context = NoContext THEN "skipped" ELSE "played")
    /\ sound' = IF context = NoContext
                THEN NoSound
                ELSE Sound("beep", Number(IF isStart THEN 880 ELSE 440, 1, 0),
                           "metronome")
    /\ UNCHANGED mutedSince
    /\ UNCHANGED <<context, contextState, audioTime, isReady, samplesLoaded, buffers,
                   masterGains, tasks, loads, restored, nInits>>

\* playCountdownBeep(isStart): oscillator -> gain -> context.destination
PlayCountdownBeep(isStart) ==
    /\ audioLast' = Did("playCountdownBeep",
                        IF context = NoContext THEN "skipped" ELSE "played")
    /\ sound' = IF context = NoContext
                THEN NoSound
                ELSE Sound("beep", Number(IF isStart THEN 880 ELSE 440, 1, 0),
                           "destination")
    /\ UNCHANGED mutedSince
    /\ UNCHANGED <<context, contextState, audioTime, isReady, samplesLoaded, buffers,
                   masterGains, tasks, loads, restored, nInits>>

\* the clock of a running context advances
AdvanceAudio(d) ==
    /\ context # NoContext
    /\ contextState = "running"
    /\ audioTime + d <= MaxAudioTime
    /\ audioTime' = audioTime + d
    /\ audioLast' = Did("advance", "ok")
    /\ sound' = NoSound
    /\ UNCHANGED mutedSince
    /\ UNCHANGED <<context, contextState, isReady, samplesLoaded, buffers,
                   masterGains, tasks, loads, restored, nInits>>

\* new AudioService()
AudioInitVars ==
    /\ context = NoContext
    /\ contextState = "closed"
    /\ audioTime = 0
    /\ isReady = FALSE
    /\ samplesLoaded = FALSE
    /\ buffers = [obj |-> 0, bass |-> FALSE, click |-> FALSE]
    /\ masterGains = NoGains
    /\ tasks = <<>>
    /\ loads = 0
    /\ audioLast = Did("new", "ok")
    /\ restored = NoLevels
    /\ nInits = 0
    /\ sound = NoSound
    /\ mutedSince = NoMute

----------------------------------------------------------------------------
(* Specifications *)

\* the animator at rest (while the metronome is checked)
LoopIdle ==
    /\ schedulerCtx = FALSE
    /\ audioNow = 0
    /\ playhead = <<0, 1>>
    /\ highlightNoteIndex = -1
    /\ rafRef = NoFrame
    /\ startTimeRef = 0
    /\ lastLoopCountRef = 0
    /\ playheadRef = <<0, 1>>
    /\ tempoRef = DefaultTempo
    /\ loopLengthRef = 1
    /\ frames = {}
    /\ retries = <<>>
    /\ restarts = 0
    /\ crossed = 0
    /\ seenLoop = 0
    /\ loopOp = "init"
    /\ nSeeks = 0
    /\ nLoopConfig = 0
    /\ nContexts = 0
    /\ lastTick = NoTick
    /\ loopIsPlaying = FALSE

\* the parts of the application that a specification leaves at rest
----------------------------------------------------------------------------
(* The service worker: the caching strategies of public/sw.js              *)
(* (cache operations are taken to succeed; a fetch resolves with an ok     *)
(* response, resolves with an error status, or rejects)                    *)

\* PRECACHE_ASSETS (the icon files are left out)
PrecacheAssets == {"/", "/index.html", "/offline.html", "/manifest.json", "/vite.svg"}

\* the GET requests of the page's own origin that reach the strategies:
\* URL and request.destination
SwRequests ==
    {[url |-> "/",              destination |-> "document"],
     [url |-> "/lesson",        destination |-> "document"],
     [url |-> "/assets/app.js", destination |-> "script"],
     [url |-> "/img/logo.png",  destination |-> "image"],
     [url |-> "/data.json",     destination |-> ""]}

\* fetch(request): resolves with response.ok, resolves with an error status,
\* rejects
NetworkOutcomes == {"ok", "httpError", "fails"}

\* what a strategy's promise gives: resolves is "response" or "undefined",
\* from names the response, put the cache the strategy writes to
Outcome(resolves, from, put) == [resolves |-> resolves, from |-> from, put |-> put]

\* await caches.match(request): looks in every cache
CacheMatch(url) == url \in (swStatic \cup swRuntime)

\* if (networkResponse.ok) { cache.put(request, networkResponse.clone()) }
PutIfOk(net, cache) == IF net = "ok" THEN cache ELSE "none"

\* cacheFirst(request)
CacheFirst(url, net) ==
    IF CacheMatch(url) THEN Outcome("response", "cache", "none")
    ELSE IF net # "fails" THEN Outcome("response", "network", PutIfOk(net, "runtime"))
    ELSE Outcome("response", "made408", "none")

\* networkFirst(request)
NetworkFirst(url, net) ==
    IF net # "fails" THEN Outcome("response", "network", PutIfOk(net, "runtime"))
    ELSE IF CacheMatch(url) THEN Outcome("response", "cache", "none")
    ELSE Outcome("response", "made408", "none")

\* networkFirstWithFallback(request)
NetworkFirstWithFallback(url, net) ==
    IF net # "fails" THEN Outcome("response", "network", PutIfOk(net, "static"))
    ELSE IF CacheMatch(url) THEN Outcome("response", "cache", "none")
    ELSE IF CacheMatch("/offline.html") THEN Outcome("response", "offlinePage", "none")
    ELSE Outcome("response", "made503", "none")

\* staleWhileRevalidate(request): fetchPromise gives the network response,
\* or cachedResponse when the fetch rejects; the function returns
\* cachedResponse || fetchPromise
StaleWhileRevalidate(url, net) ==
    IF CacheMatch(url) THEN Outcome("response", "cache", PutIfOk(net, "runtime"))
    ELSE IF net # "fails" THEN Outcome("response", "network", PutIfOk(net, "runtime"))
    ELSE Outcome("undefined", "none", "none")

\* the fetch listener's choice of strategy
StrategyFor(req) ==
    IF req.destination = "document" THEN "networkFirstWithFallback"
    ELSE IF req.destination \in {"style", "script", "font"} THEN "cacheFirst"
    ELSE IF req.destination = "image" THEN "staleWhileRevalidate"
    ELSE "networkFirst"

Respond(strategy, url, net) ==
    IF strategy = "networkFirstWithFallback" THEN NetworkFirstWithFallback(url, net)
    ELSE IF strategy = "cacheFirst" THEN CacheFirst(url, net)
    ELSE IF strategy = "staleWhileRevalidate" THEN StaleWhileRevalidate(url, net)
    ELSE NetworkFirst(url, net)

NoFetch == [strategy |-> "none", url |-> "", net |-> "none", hit |-> FALSE,
            outcome |-> Outcome("none", "none", "none")]

\* a fetch event for req, with the network answering net
HandleFetch(req, net) ==
    LET strategy == StrategyFor(req)
        r        == Respond(strategy, req.url, net)
    IN  /\ swLast' = [strategy |-> strategy, url |-> req.url, net |-> net,
                      hit |-> CacheMatch(req.url), outcome |-> r]
        /\ swStatic' = IF r.put = "static" THEN swStatic \cup {req.url} ELSE swStatic
        /\ swRuntime' = IF r.put = "runtime" THEN swRuntime \cup {req.url} ELSE swRuntime

\* the message CLEAR_CACHE: every cache is deleted
ClearCache ==
    /\ swStatic' = {}
    /\ swRuntime' = {}
    /\ swLast' = NoFetch

\* no service worker activity
SwIdle ==
    /\ swStatic = {}
    /\ swRuntime = {}
    /\ swLast = NoFetch

\* after install: cache.addAll(PRECACHE_ASSETS) stored all the assets, or
\* failed and stored none
SwInitVars ==
    /\ swStatic \in {{}, PrecacheAssets}
    /\ swRuntime = {}
    /\ swLast = NoFetch

nonMetroVars == <<loopVars, playerVars, audioVars, swVars>>
nonLoopVars == <<audioContextRef, now, metroVars, playerVars, audioVars, swVars>>
nonPlayerVars == <<audioContextRef, now, metroVars, loopVars, audioVars, swVars>>
nonAudioVars == <<audioContextRef, now, metroVars, loopVars, playerVars, swVars>>
nonSwVars == <<audioContextRef, now, metroVars, loopVars, playerVars, audioVars>>

Init == MetroInit(Tempos) /\ LoopIdle /\ PlayerInitVars /\ AudioInitVars /\ SwIdle

Next ==
    \/ \E w \in BOOLEAN : Start(w) /\ UNCHANGED nonMetroVars
    \/ \E st \in StartTimes : StartForPlayback(st) /\ UNCHANGED nonMetroVars
    \/ Stop /\ UNCHANGED nonMetroVars
    \/ \E t \in Tempos : SetTempo(t) /\ UNCHANGED nonMetroVars
    \/ \E ts \in TimeSignatures : SetTimeSignature(ts) /\ UNCHANGED nonMetroVars
    \/ \E t \in timers : TimerFires(t) /\ UNCHANGED nonMetroVars
    \/ \E d \in ClockSteps : AdvanceClock(d) /\ UNCHANGED nonMetroVars

Spec == Init /\ [][Next]_vars

\* the page goes on while no handler is stuck in a loop
Responsive == lastOp # "hang"

ConfigInit == MetroInit({DefaultTempo}) /\ LoopIdle /\ PlayerInitVars /\ AudioInitVars /\ SwIdle

ConfigNext ==
    \/ \E typed \in TypedTempos :
           Responsive /\ TempoFieldChange(typed) /\ UNCHANGED nonMetroVars
    \/ \E v \in SliderTempos :
           Responsive /\ TempoSliderChange(v) /\ UNCHANGED nonMetroVars
    \/ \E t \in TypedTempos : Responsive /\ SetTempo(t) /\ UNCHANGED nonMetroVars
    \/ \E w \in BOOLEAN : Responsive /\ StartAtAnyTempo(w) /\ UNCHANGED nonMetroVars
    \/ Responsive /\ Stop /\ UNCHANGED nonMetroVars
    \/ \E t \in timers : Responsive /\ TimerFires(t) /\ UNCHANGED nonMetroVars
    \/ \E d \in ClockSteps : Responsive /\ AdvanceClock(d) /\ UNCHANGED nonMetroVars

\* the metronome with the tempo set through the BPM field, the slider and
\* setTempo, at the default initialTempo
ConfigSpec == ConfigInit /\ [][ConfigNext]_vars

LoopInit == MetroInit({DefaultTempo}) /\ LoopInitVars /\ PlayerInitVars /\ AudioInitVars /\ SwIdle

metroAll == <<audioContextRef, now, metroVars>>

LoopNext ==
    \/ LoopStart /\ UNCHANGED nonLoopVars
    \/ RetryFires /\ UNCHANGED nonLoopVars
    \/ \E f \in frames : LoopTick(f) /\ UNCHANGED nonLoopVars
    \/ LoopStop /\ UNCHANGED nonLoopVars
    \/ \E p \in SeekPositions : LoopSeek(p) /\ UNCHANGED nonLoopVars
    \/ \E t \in LoopTempos, len \in LoopLengths : SetLoopConfig(t, len) /\ UNCHANGED nonLoopVars
    \/ ContextAvailable /\ UNCHANGED nonLoopVars
    \/ \E d \in LoopClockSteps : LoopAdvance(d) /\ UNCHANGED nonLoopVars

LoopSpec == LoopInit /\ [][LoopNext]_vars

FrameNext ==
    \/ LoopStart /\ UNCHANGED nonLoopVars
    \/ RetryFires /\ UNCHANGED nonLoopVars
    \/ \E f \in frames : LoopTick(f) /\ UNCHANGED nonLoopVars
    \/ LoopStop /\ UNCHANGED nonLoopVars
    \/ \E t \in LoopTempos, len \in LoopLengths : SetLoopConfig(t, len) /\ UNCHANGED nonLoopVars
    \/ ContextAvailable /\ UNCHANGED nonLoopVars
    \/ \E d \in FrameSteps : LoopAdvance(d) /\ UNCHANGED nonLoopVars

\* the animator with frames that fall between the beats (no seek)
FrameSpec == LoopInit /\ [][FrameNext]_vars

ReplaceNext ==
    \/ LoopStart /\ UNCHANGED nonLoopVars
    \/ RetryFires /\ UNCHANGED nonLoopVars
    \/ \E f \in frames : LoopTick(f) /\ UNCHANGED nonLoopVars
    \/ LoopStop /\ UNCHANGED nonLoopVars
    \/ ContextAvailable /\ UNCHANGED nonLoopVars
    \/ ContextReplaced /\ UNCHANGED nonLoopVars
    \/ \E d \in LoopClockSteps : LoopAdvance(d) /\ UNCHANGED nonLoopVars

\* the animator on a scheduler that replaces its audio context (no seek, no
\* change of tempo or loop length)
ReplaceSpec == LoopInit /\ [][ReplaceNext]_vars

SwInit == MetroInit({DefaultTempo}) /\ LoopIdle /\ PlayerInitVars /\ AudioInitVars
          /\ SwInitVars

SwNext ==
    \/ \E req \in SwRequests, net \in NetworkOutcomes :
           HandleFetch(req, net) /\ UNCHANGED nonSwVars
    \/ ClearCache /\ UNCHANGED nonSwVars

\* the service worker answering fetch events
SwSpec == SwInit /\ [][SwNext]_vars

PlayerInit == MetroInit({DefaultTempo}) /\ LoopIdle /\ PlayerInitVars /\ AudioInitVars /\ SwIdle

PlayerNext ==
    \/ PlayerPlay /\ UNCHANGED nonPlayerVars
    \/ PlayerPlayImmediate /\ UNCHANGED nonPlayerVars
    \/ PlayerStop /\ UNCHANGED nonPlayerVars
    \/ PlayerPause /\ UNCHANGED nonPlayerVars
    \/ PlayerResume /\ UNCHANGED nonPlayerVars
    \/ CountdownComplete /\ UNCHANGED nonPlayerVars
    \/ CountdownTick /\ UNCHANGED nonPlayerVars
    \/ \E v \in CountdownValues : SetCountdown(v) /\ UNCHANGED nonPlayerVars

PlayerSpec == PlayerInit /\ [][PlayerNext]_vars

AudioInitAll == MetroInit({DefaultTempo}) /\ LoopIdle /\ PlayerInitVars /\ AudioInitVars /\ SwIdle

AudioNext ==
    \/ \E st \in ContextStates : AudioInit(st) /\ UNCHANGED nonAudioVars
    \/ AudioResume /\ UNCHANGED nonAudioVars
    \/ \E i \in 1..Len(tasks) : ContextResumed(i) /\ UNCHANGED nonAudioVars
    \/ \E i \in 1..Len(tasks), ok \in BOOLEAN : FetchDone(i, ok) /\ UNCHANGED nonAudioVars
    \/ \E i \in 1..Len(tasks), ok \in BOOLEAN : DecodeDone(i, ok) /\ UNCHANGED nonAudioVars
    \/ AudioClose /\ UNCHANGED nonAudioVars
    \/ \E m \in BOOLEAN : PlaySound(m, SampleBaseFrequency, 0) /\ UNCHANGED nonAudioVars
    \/ \E e \in BOOLEAN : PlayMetronomeClick(e, TRUE, TRUE) /\ UNCHANGED nonAudioVars
    \/ PlayCountdownBeep(FALSE) /\ UNCHANGED nonAudioVars

\* the audio service: loading and playing one open string, accented clicks
\* and the low beep (the context's clock and the master gains' automation
\* at rest)
AudioSpec == AudioInitAll /\ [][AudioNext]_vars

GainNext ==
    \/ \E st \in ContextStates : AudioInit(st) /\ UNCHANGED nonAudioVars
    \/ AudioClose /\ UNCHANGED nonAudioVars
    \/ StopAllSounds /\ UNCHANGED nonAudioVars
    \/ \E lv \in RestoreLevels : RestoreVolumes(lv) /\ UNCHANGED nonAudioVars
    \/ \E s \in BOOLEAN : PlayCountdownBeep(s) /\ UNCHANGED nonAudioVars
    \/ \E d \in AudioClockSteps : AdvanceAudio(d) /\ UNCHANGED nonAudioVars

\* the audio service: the master gains over time and the countdown beep
\* (no sample loading)
GainSpec == AudioInitAll /\ [][GainNext]_vars

VolumeNext ==
    \/ \E st \in ContextStates : AudioInit(st) /\ UNCHANGED nonAudioVars
    \/ AudioClose /\ UNCHANGED nonAudioVars
    \/ StopAllSounds /\ UNCHANGED nonAudioVars
    \/ \E v \in VolumeLevels : SetBassVolume(v) /\ UNCHANGED nonAudioVars
    \/ \E v \in VolumeLevels : SetMetronomeVolume(v) /\ UNCHANGED nonAudioVars
    \/ \E d \in AudioClockSteps : AdvanceAudio(d) /\ UNCHANGED nonAudioVars

\* the audio service: the volume setters and the mute over time
VolumeSpec == AudioInitAll /\ [][VolumeNext]_vars

SoundNext ==
    \/ \E st \in ContextStates : AudioInit(st) /\ UNCHANGED nonAudioVars
    \/ AudioResume /\ UNCHANGED nonAudioVars
    \/ \E i \in 1..Len(tasks) : ContextResumed(i) /\ UNCHANGED nonAudioVars
    \/ \E i \in 1..Len(tasks), ok \in BOOLEAN : FetchDone(i, ok) /\ UNCHANGED nonAudioVars
    \/ \E i \in 1..Len(tasks), ok \in BOOLEAN : DecodeDone(i, ok) /\ UNCHANGED nonAudioVars
    \/ StopAllSounds /\ UNCHANGED nonAudioVars
    \/ \E m \in BOOLEAN, f \in OpenStringFrequencies, fret \in Frets :
           PlaySound(m, f, fret) /\ UNCHANGED nonAudioVars
    \/ \E e, d, f \in BOOLEAN : PlayMetronomeClick(e, d, f) /\ UNCHANGED nonAudioVars
    \/ \E s \in BOOLEAN : PlayCountdownBeep(s) /\ UNCHANGED nonAudioVars

\* the audio service: the sounds it builds (no close(), the context's clock
\* at rest)
SoundSpec == AudioInitAll /\ [][SoundNext]_vars

MuteNext ==
    \/ \E st \in ContextStates : AudioInit(st) /\ UNCHANGED nonAudioVars
    \/ AudioResume /\ UNCHANGED nonAudioVars
    \/ StopAllSounds /\ UNCHANGED nonAudioVars
    \/ RestoreVolumes(<<700, 500>>) /\ UNCHANGED nonAudioVars
    \/ SetBassVolume(300) /\ UNCHANGED nonAudioVars
    \/ SetMetronomeVolume(300) /\ UNCHANGED nonAudioVars
    \/ PlaySound(FALSE, SampleBaseFrequency, 0) /\ UNCHANGED nonAudioVars
    \/ PlayMetronomeClick(TRUE, TRUE, TRUE) /\ UNCHANGED nonAudioVars
    \/ PlayCountdownBeep(FALSE) /\ UNCHANGED nonAudioVars
    \/ \E d \in AudioClockSteps : AdvanceAudio(d) /\ UNCHANGED nonAudioVars

\* the audio service of one session: pause (stopAllSounds), resume
\* (restoreVolumes) and what may be called in between (no close())
MuteSpec == AudioInitAll /\ [][MuteNext]_vars

ServiceNext ==
    \/ \E st \in ContextStates : AudioInit(st) /\ UNCHANGED nonAudioVars
    \/ AudioResume /\ UNCHANGED nonAudioVars
    \/ \E i \in 1..Len(tasks) : ContextResumed(i) /\ UNCHANGED nonAudioVars
    \/ \E i \in 1..Len(tasks), ok \in BOOLEAN : FetchDone(i, ok) /\ UNCHANGED nonAudioVars
    \/ \E i \in 1..Len(tasks), ok \in BOOLEAN : DecodeDone(i, ok) /\ UNCHANGED nonAudioVars
    \/ AudioClose /\ UNCHANGED nonAudioVars
    \/ \E v \in VolumeLevels : SetBassVolume(v) /\ UNCHANGED nonAudioVars
    \/ \E v \in VolumeLevels : SetMetronomeVolume(v) /\ UNCHANGED nonAudioVars

\* the audio service: its life cycle, the loading and the volume setters
\* (the context's clock at rest)
ServiceSpec == AudioInitAll /\ [][ServiceNext]_vars

----------------------------------------------------------------------------
(* Properties of the metronome scheduler *)

RecentBeats == {recent[i] : i \in 1..Len(recent)}
Stopped == lastOp \in {"stop", "stopAgain"}

\* C1: in a session started with start(true) whose time signature ts is not
\* changed, the k-th emitted beat is a pre-roll beat exactly when k <= ts
\* (preRollBars = 1), and onPreRollComplete fires with the ts-th beat and with
\* no other: ts pre-roll beats, one completion, normal beats afterwards.
C1_PreRollThenNormal ==
    \A b \in RecentBeats :
        (b.sess.kind = "start" /\ b.sess.preRoll /\ b.stTs = b.sess.ts) =>
            /\ b.preRoll <=> (b.idx <= PreRollTotal(b.sess.ts))
            /\ b.completed <=> (b.idx = PreRollTotal(b.sess.ts))

\* C2: the scheduling step that completes the pre-roll leaves BeatCounter and
\* PreRollCounter both 0, so the next beat is computed from BeatCounter = 0.
C2_CountersZeroAfterPreRoll ==
    \A b \in RecentBeats : b.completed => (b.bcAfter = 0 /\ b.pcAfter = 0)

\* C3: every emitted beat is started on the audio clock at its own
\* nextBeatTime, and two beats emitted by the same tick sound secondsPerBeat
\* apart.
C3_BeatSoundsAtBeatTime ==
    /\ \A b \in RecentBeats : b.soundAt = b.time
    /\ \A i \in 1..(Len(recent) - 1) :
          ~recent[i + 1].first => recent[i + 1].soundAt = recent[i].soundAt + recent[i].spb

\* C4: for every normal-mode beat, beatInBar = BeatCounter mod timeSignature
\* (the time signature the scheduling step runs with) lies in
\* 0..timeSignature-1, the click is accented iff beatInBar = 0, and the
\* published currentBeat is beatInBar + 1, in 1..timeSignature.
C4_BeatInBarAccentCurrentBeat ==
    \A b \in RecentBeats :
        ~b.preRoll =>
            /\ b.bc >= 0
            /\ (b.bc % b.ts) \in 0..(b.ts - 1)
            /\ b.accent <=> ((b.bc % b.ts) = 0)
            /\ b.published = (b.bc % b.ts) + 1
            /\ b.published \in 1..b.ts

C4_Witness ==
    \E a, b \in RecentBeats :
        /\ ~a.preRoll /\ a.accent /\ a.published = 1
        /\ ~b.preRoll /\ ~b.accent /\ b.published > 1

\* C5: with a tempo that never changes, consecutive beats of a session are
\* exactly secondsPerBeat apart (so strictly increasing, none skipped, none
\* emitted twice), within one tick and across ticks, whenever the ticks fire.
C5_BeatsExactlyOneBeatApart ==
    ~tempoChanged =>
        \A i \in 1..(Len(recent) - 1) :
            /\ recent[i + 1].idx = recent[i].idx + 1
            /\ recent[i + 1].time = recent[i].time + SecondsPerBeat(tempo)
            /\ recent[i + 1].time > recent[i].time

C5_Witness ==
    /\ ~tempoChanged
    /\ Len(recent) >= 2
    /\ \E i \in 1..(Len(recent) - 1) : ~recent[i + 1].first
    /\ \E t \in timers : t.c.tempo = tempo

\* C6: after setTempo / setTimeSignature, the running scheduler's next beat
\* uses the new secondsPerBeat for its increment and the new time signature.
C6_NextBeatUsesNewConfig ==
    \A b \in RecentBeats :
        /\ b.spb = SecondsPerBeat(b.stTempo)
        /\ b.ts = b.stTs

\* C7: startForPlayback(startTime) leaves pre-roll inactive and schedules its
\* first beat with BeatCounter = floor(startTime / secondsPerBeat) at
\* now + (secondsPerBeat - (startTime mod secondsPerBeat)); these are the
\* values of the refs after the call unless the call itself already emitted
\* that beat.  For startTime = 1.5 s at tempo 120: BeatCounter 3, now + 0.5 s.
C7_PlaybackStart ==
    /\ \A b \in RecentBeats :
          (b.sess.kind = "playback" /\ b.idx = 1) =>
              LET spb == 60000 \div b.sess.tempo IN
              /\ b.bc = b.sess.st \div spb
              /\ b.time = b.sess.t0 + (spb - (b.sess.st % spb))
    /\ (sess.kind = "playback" /\ lastOp = "start") => ~isPreRoll
    /\ (sess.kind = "playback" /\ lastOp = "start" /\ sessBeats = 0) =>
          LET spb == 60000 \div sess.tempo IN
          /\ beatCountRef = sess.st \div spb
          /\ nextBeatTimeRef = sess.t0 + (spb - (sess.st % spb))
    /\ PlaybackBeatCount(1500, SecondsPerBeat(120)) = 3
    /\ PlaybackFirstBeatTime(1500, SecondsPerBeat(120)) = now + 500

C7_Witness ==
    \E b \in RecentBeats :
        /\ b.sess.kind = "playback"
        /\ b.idx = 1
        /\ b.sess.st % (60000 \div b.sess.tempo) # 0
        /\ b.bc > 0

\* C8: once stop() has returned, no driving timer is pending (so no beat is
\* emitted) until the next start or startForPlayback.
C8_NoTimerAfterStop == Stopped => timers = {}

\* C9: stop() resets BeatCounter, PreRollCounter, currentBeat and preRollBeat
\* to 0 and isPlaying and isPreRoll to false (and clears timerIdRef); called
\* when already stopped it changes nothing.
StopPost ==
    /\ beatCountRef = 0
    /\ preRollCountRef = 0
    /\ currentBeat = 0
    /\ preRollBeat = 0
    /\ ~isPlaying
    /\ ~isPreRoll
    /\ timerIdRef = NoTimer

C9_StopResetsAndIsIdempotent ==
    [][Stop =>
          /\ StopPost'
          /\ Stopped =>
                UNCHANGED <<audioContextRef, now, tempo, timeSignature, isPlaying,
                            isPreRoll, currentBeat, preRollBeat, nextBeatTimeRef,
                            timerIdRef, beatCountRef, preRollCountRef, timers,
                            recent, sess, sessBeats, tempoChanged>>]_vars

C9_Witness == lastOp = "stopAgain" /\ nStarts > 0 /\ recent # <<>>

----------------------------------------------------------------------------
(* Properties of the playhead animator *)

\* C10: onLoopRestart has fired exactly once for each loop boundary the
\* playhead has crossed (never twice for one boundary, never zero times),
\* whatever the spacing of the frame ticks and whatever seek calls and
\* tempo / loopLength changes happened in between
C10_OneRestartPerBoundary == restarts = crossed

\* a fraction <<num, den>> lies in [0, 1)
InUnitInterval(q) == 0 <= q[1] /\ q[1] < q[2]

\* two fractions <<num, den>> (den > 0) are the same number
FracEq(q, r) == q[1] * r[2] = r[1] * q[2]

\* C11: the published progress (playhead state and playheadRef) is in [0, 1)
\* after any sequence of start, tick, seek and stop, and a tick with
\* elapsed >= 0 publishes (elapsed mod loopDuration) / loopDuration with
\* loopDuration = (60 / tempo) * beatsPerMeasure * loopLength
C11_ProgressInUnitInterval ==
    /\ [](InUnitInterval(playhead) /\ InUnitInterval(playheadRef))
    /\ [][\A f \in frames :
            (LoopTick(f) /\ schedulerCtx /\ audioNow >= startTimeRef) =>
                LET ld == (60000 \div tempoRef) * BeatsPerMeasure * loopLengthRef
                    e  == audioNow - startTimeRef
                IN  /\ FracEq(playhead', <<e % ld, ld>>)
                    /\ playheadRef' = playhead']_vars

\* C12: seek(position) clamps the position into [0, 1] and rewrites startTime
\* to now - position * loopDuration, so that a tick at the same instant
\* publishes a progress equal to the sought position
C12_SeekThenTickGivesPosition ==
    /\ [][\A p \in SeekPositions :
            (LoopSeek(p) /\ schedulerCtx) =>
                LET c == IF p[1] < 0 THEN <<0, 1>> ELSE IF p[1] > p[2] THEN <<1, 1>> ELSE p
                IN  /\ playhead' = c
                    /\ startTimeRef' * c[2] = audioNow * c[2] - c[1] * GetLoopDuration]_vars
    /\ [][\A f \in frames :
            (loopOp = "seek" /\ schedulerCtx /\ LoopTick(f)) =>
                FracEq(playhead', playhead)]_vars

----------------------------------------------------------------------------
(* Properties of the playback state machine *)

\* the transition table: <<state, event, next state>>
PlayerTable ==
    {<<"Idle", "PLAY", "CountingDown">>,
     <<"Idle", "PLAY_IMMEDIATE", "Playing">>,
     <<"CountingDown", "COUNTDOWN_COMPLETE", "Playing">>,
     <<"Playing", "PAUSE", "Paused">>,
     <<"Paused", "RESUME", "Playing">>}
    \cup {<<s, "STOP", "Idle">> : s \in PlayerStates}

\* C13: the playback state machine follows the table (PLAY: Idle to
\* CountingDown, PLAY_IMMEDIATE: Idle to Playing, COUNTDOWN_COMPLETE:
\* CountingDown to Playing, PAUSE: Playing to Paused, RESUME: Paused to
\* Playing, STOP: any state to Idle), and every other (state, event) pair
\* leaves the state unchanged
C13_PlayerFollowsTable ==
    /\ playerState \in PlayerStates
    /\ playerLast[2] \in PlayerEvents =>
          IF \E row \in PlayerTable : row[1] = playerLast[1] /\ row[2] = playerLast[2]
          THEN <<playerLast[1], playerLast[2], playerState>> \in PlayerTable
          ELSE playerState = playerLast[1]

C13_Witness ==
    /\ playerLast = <<"Idle", "RESUME">>
    /\ playerState = "Idle"

----------------------------------------------------------------------------
(* Properties of the audio service *)

\* the service holds nothing of an audio device
Uninitialized ==
    /\ context = NoContext
    /\ ~isReady
    /\ ~samplesLoaded
    /\ ~buffers.bass
    /\ ~buffers.click
    /\ masterGains = NoGains

\* C14: after close() and until the next init() the service is uninitialized
\* (context null, isReady and samplesLoaded false, both buffers and both
\* master gains unset), whatever other operations are called and whatever
\* asynchronous work was pending
C14_UninitializedAfterClose ==
    (nInits > 0 /\ context = NoContext) => Uninitialized

\* C15: between init() and close() the samples are loaded at most once: a
\* resume() after the first one, also one issued while the first load is in
\* flight, starts no second load
C15_SamplesLoadedAtMostOnce == loads <= 1

\* C16: while the service has never had a context it stays unready (resume()
\* does not set isReady) and every playback call does nothing
C16_UnreadyWithoutContext ==
    nInits = 0 =>
        /\ ~isReady
        /\ audioLast.out # "played"

\* the fields of the service and the scheduler's BeatCounter stay as they are
ServiceUntouched ==
    UNCHANGED <<context, contextState, isReady, samplesLoaded, buffers, masterGains,
                tasks, beatCountRef>>

\* C17: playSound and playMetronomeClick called before the sample's buffer is
\* loaded, or with muted = true / enabled = false, create no playback
\* instance and change nothing of the service or of the scheduler's
\* BeatCounter
C17_PlayWithoutBufferIsNoOp ==
    [][/\ \A m \in BOOLEAN, f \in OpenStringFrequencies, fret \in Frets :
             (PlaySound(m, f, fret) /\ (m \/ ~buffers.bass)) =>
                 (audioLast'.out # "played" /\ ServiceUntouched)
       /\ \A e, d, f \in BOOLEAN :
             (PlayMetronomeClick(e, d, f) /\ (~e \/ ~buffers.click)) =>
                 (audioLast'.out # "played" /\ ServiceUntouched)]_vars

C17_Witness ==
    /\ audioLast = Did("playSound", "noBuffer")
    /\ context # NoContext
    /\ contextState = "running"
    /\ \E i \in 1..Len(tasks) : tasks[i].pc \in {"fetchBass", "decodeBass"}

\* C18: a sample that fails to load leaves only its own buffer unset and the
\* load goes on: after a failed bass sample the click sample is requested,
\* after the click sample samplesLoaded and isReady are set, and a click
\* buffer that is loaded gives clicks whether or not the bass buffer is
C18_FailedSampleLeavesTheOther ==
    /\ [][\A i \in 1..Len(tasks) :
            /\ ((FetchDone(i, FALSE) \/ DecodeDone(i, FALSE))
                    /\ tasks[i].pc \in {"fetchBass", "decodeBass"}) =>
                  (buffers'.click = buffers.click /\ tasks'[i].pc = "fetchClick")
            /\ ((\E ok \in BOOLEAN : FetchDone(i, ok) \/ DecodeDone(i, ok))
                    /\ tasks[i].pc \in {"fetchClick", "decodeClick"}
                    /\ tasks'[i].pc # "decodeClick") =>
                  /\ buffers'.bass = buffers.bass
                  /\ samplesLoaded' /\ isReady' /\ tasks'[i].pc = "done"
                  /\ (tasks[i].obj = buffers.obj) => (buffers'.click = tasks'[i].click)]_vars
    /\ []((context # NoContext /\ buffers.click) =>
              PlayMetronomeClickOutcome(TRUE) = "played")

C18_Witness ==
    /\ \E i \in 1..Len(tasks) :
          tasks[i].pc = "done" /\ ~tasks[i].bass /\ tasks[i].click
    /\ ~buffers.bass
    /\ buffers.click
    /\ isReady
    /\ audioLast = Did("playMetronomeClick", "played")

\* the ramps of a gain's timeline that end after the current time
PendingRamps(ev) == {i \in 1..Len(ev) : ev[i].kind = "ramp" /\ ev[i].time > audioTime}

\* a gain's timeline ends with a ramp to 0 that ends 10 ms from now, and
\* holds no other pending ramp
RampsToZeroOnce(ev) ==
    /\ ev # <<>>
    /\ ev[Len(ev)] = RampEvent(audioTime + RampTime, 0)
    /\ Cardinality(PendingRamps(ev)) = 1
    /\ ValueAt(ev, audioTime + RampTime) = 0

\* C19: after stopAllSounds() both master gains are driven to 0 by a linear
\* ramp that ends 10 ms after the call; after a second call in immediate
\* succession each gain still ends at 0 and holds exactly one pending ramp
C19_StopAllSoundsRampsOnce ==
    (audioLast.op = "stopAllSounds" /\ context # NoContext) =>
        /\ RampsToZeroOnce(masterGains.bass)
        /\ RampsToZeroOnce(masterGains.metronome)

C19_Witness ==
    /\ audioLast = Did("stopAllSounds", "again")
    /\ context # NoContext
    /\ contextState = "running"
    /\ audioTime > 0

\* C20: after restoreVolumes(bassLevel, metronomeLevel), also one called less
\* than 10 ms after stopAllSounds(), the bass and metronome master gains are
\* at the given levels and stay there (until the next stopAllSounds or close)
C20_RestoredLevelsStay ==
    restored # NoLevels =>
        /\ ValueAt(masterGains.bass, audioTime) = restored[1]
        /\ ValueAt(masterGains.metronome, audioTime) = restored[2]

\* the ramp events of a gain's timeline
Ramps(ev) == {i \in 1..Len(ev) : ev[i].kind = "ramp"}

\* one volume setter on an initialized service: the gain it sets reads v at
\* once, by a value set at the current time and with no ramp added, and the
\* other gain keeps its timeline
SetterSetsOnly(set, other, set2, other2, v) ==
    /\ ValueAt(set2, audioTime) = v
    /\ \E i \in 1..Len(set2) : set2[i] = SetEvent(audioTime, v)
    /\ Cardinality(Ramps(set2)) = Cardinality(Ramps(set))
    /\ other2 = other

\* C21: on an initialized service, reading the master gain right after
\* setBassVolume(v) / setMetronomeVolume(v) gives exactly v, set with no
\* ramp, and the other channel's gain is unchanged
C21_SetVolumeSetsOneGain ==
    [][\A v \in VolumeLevels :
          /\ (SetBassVolume(v) /\ masterGains.node # 0) =>
                 SetterSetsOnly(masterGains.bass, masterGains.metronome,
                                masterGains'.bass, masterGains'.metronome, v)
          /\ (SetMetronomeVolume(v) /\ masterGains.node # 0) =>
                 SetterSetsOnly(masterGains.metronome, masterGains.bass,
                                masterGains'.metronome, masterGains'.bass, v)]_vars

\* a volume set while the ramp of stopAllSounds is running, at a time > 0
C21_Witness ==
    /\ audioLast = Did("setMetronomeVolume", "set")
    /\ audioTime > 0
    /\ PendingRamps(masterGains.metronome) # {}
    /\ ValueAt(masterGains.metronome, audioTime) = 1000
    /\ ValueAt(masterGains.bass, audioTime) \notin {0, 1000, BassLevel}

\* C22: init() is idempotent: the first call creates the context and the two
\* master gains at 0.7 (bass) and 0.5 (metronome); a call on an initialized
\* service leaves the context, the gain nodes, their levels, the buffers and
\* the readiness flags as they are
C22_InitIsIdempotent ==
    [][\A st \in ContextStates :
          AudioInit(st) =>
              IF context = NoContext
              THEN /\ context' # NoContext
                   /\ masterGains'.node # 0
                   /\ ValueAt(masterGains'.bass, audioTime') = BassLevel
                   /\ ValueAt(masterGains'.metronome, audioTime') = MetronomeLevel
              ELSE UNCHANGED <<context, contextState, audioTime, masterGains,
                               buffers, isReady, samplesLoaded, nInits>>]_vars

\* init() called again after the samples were loaded and a volume was set
C22_Witness ==
    /\ audioLast = Did("init", "kept")
    /\ isReady /\ samplesLoaded /\ buffers.bass /\ buffers.click
    /\ ValueAt(masterGains.bass, audioTime) = 300
    /\ ValueAt(masterGains.metronome, audioTime) = 1000

\* C23: an enabled metronome click whose buffer is loaded gets the dynamics
\* multiplier 1.4 when isDownbeat and isFirstOfBeat are both true, 1.0 when
\* only isFirstOfBeat is true and 0.5 in every other case, isDownbeat
\* without isFirstOfBeat included
C23_ClickDynamics ==
    [][\A d, f \in BOOLEAN :
          (PlayMetronomeClick(TRUE, d, f) /\ context # NoContext /\ buffers.click) =>
              /\ sound'.kind = "click"
              /\ sound'.to = "metronome"
              /\ sound'.value = Number(CASE d /\ f   -> 1400
                                         [] ~d /\ f  -> 1000
                                         [] d /\ ~f  -> 500
                                         [] ~d /\ ~f -> 500,
                                       1000, 0)]_vars

\* a click on a downbeat that is not the first subdivision of its beat
C23_Witness ==
    /\ audioLast = Did("playMetronomeClick", "played")
    /\ sound = Sound("click", Number(500, 1000, 0), "metronome")
    /\ ~buffers.bass

\* the number a equals the number b (both with whole semitones below 12)
NumberEq(a, b) == a[1] * b[2] = b[1] * a[2] /\ a[3] = b[3]

\* C24: the playback rate of a note is
\* openStringFrequency * 2^(fret/12) / sampleBaseFrequency: with the open
\* string at the sample's base frequency, fret 0 gives the rate 1.0 and fret
\* 12 the rate 2.0, and a note 12 frets higher on a string has twice the rate
C24_PlaybackRate ==
    [][\A open \in OpenStringFrequencies, fret \in Frets :
          (PlaySound(FALSE, open, fret) /\ context # NoContext /\ buffers.bass) =>
              LET rate == sound'.value
              IN  /\ sound'.kind = "note"
                  /\ NumberEq(rate, Number(open * Pow2(fret \div 12),
                                           SampleBaseFrequency, fret % 12))
                  /\ (open = SampleBaseFrequency /\ fret = 0) =>
                         NumberEq(rate, Number(1, 1, 0))
                  /\ (open = SampleBaseFrequency /\ fret = 12) =>
                         NumberEq(rate, Number(2, 1, 0))
                  /\ fret >= 12 =>
                         LET lower == PlaybackRate(open, fret - 12)
                         IN  NumberEq(rate, Number(2 * lower[1], lower[2], lower[3]))]_vars

\* the octave of a fretted note on a string that is not at the sample's
\* base frequency
C24_Witness ==
    /\ audioLast = Did("playSound", "played")
    /\ sound.kind = "note"
    /\ sound.value = Number(1100, 412, 5)

\* C25: playCountdownBeep(isStart) builds a beep connected to the output and
\* to neither master gain whenever the context exists, also after
\* stopAllSounds() has muted both gains and with no sample buffer loaded; it
\* leaves both master gains as they are; the beep is at 880 Hz when isStart
\* and at 440 Hz otherwise
C25_BeepBypassesGains ==
    [][\A isStart \in BOOLEAN :
          (PlayCountdownBeep(isStart) /\ context # NoContext) =>
              /\ sound' = Sound("beep", Number(IF isStart THEN 880 ELSE 440, 1, 0),
                                "destination")
              /\ UNCHANGED masterGains]_vars

\* the start beep on a service muted by stopAllSounds(), no buffer loaded
C25_Witness ==
    /\ audioLast = Did("playCountdownBeep", "played")
    /\ sound.value = Number(880, 1, 0)
    /\ ~buffers.bass /\ ~buffers.click
    /\ PendingRamps(masterGains.bass) = {}
    /\ ValueAt(masterGains.bass, audioTime) = 0
    /\ ValueAt(masterGains.metronome, audioTime) = 0

\* C26: a tempo that is not greater than 0 never reaches the scheduler: every
\* run of scheduleNextBeat, started or pending, has a tempo above 0, so its
\* secondsPerBeat is positive and finite, and no run is stuck in its loop
C26_TempoPositiveInScheduler ==
    /\ lastOp # "hang"
    /\ \A t \in timers :
          /\ t.c.tempo > 0
          /\ SecondsPerBeat(t.c.tempo) > 0
          /\ SecondsPerBeat(t.c.tempo) < Infinity

\* C27: an animator tick whose elapsed time is negative is a no-op frame: it
\* changes neither the playhead, nor the highlighted note index, nor the last
\* observed loop count, fires no loop-restart notification, and requests
\* the next frame, so the animation goes on
C27_NegativeElapsedIsNoOp ==
    [][\A f \in frames :
          (LoopTick(f) /\ schedulerCtx /\ audioNow - startTimeRef < 0) =>
              /\ UNCHANGED <<playhead, playheadRef, highlightNoteIndex,
                             lastLoopCountRef, restarts>>
              /\ rafRef' # NoFrame
              /\ rafRef' \in frames'
              /\ f \notin frames']_vars

\* a tick before the start instant, with a playhead inside the loop
C27_Witness ==
    /\ loopOp = "tick"
    /\ schedulerCtx
    /\ audioNow < startTimeRef
    /\ rafRef \in frames
    /\ playhead[1] > 0

\* the number q is at most the number r (fractions with positive denominators)
FracLeq(q, r) == q[1] * r[2] <= r[1] * q[2]

\* C28: between two consecutive ticks that fall in the same loop iteration,
\* with a clock that does not go back and no seek (nor start or stop) in
\* between, the playhead progress does not decrease: it goes back towards 0
\* only when a loop boundary is crossed
C28_ProgressMonotoneInIteration ==
    [][\A f \in frames :
          (/\ LoopTick(f)
           /\ schedulerCtx
           /\ lastTick # NoTick
           /\ audioNow - startTimeRef >= 0
           /\ LoopCount(audioNow - startTimeRef, GetLoopDuration) = lastTick.count) =>
              FracLeq(lastTick.progress, playhead')]_vars

\* C29: at the end of every scheduler tick nextBeatTime >= now + 0.1 s (every
\* beat due inside the look-ahead window has been emitted) and exactly one
\* follow-up timer, of 25 ms, is pending
C29_TickEndsAheadWithOneTimer ==
    [][\A t \in timers :
          TimerFires(t) =>
              /\ nextBeatTimeRef' >= now' + LookAhead
              /\ Cardinality(timers') = 1
              /\ \A u \in timers' : u.id = timerIdRef' /\ u.delay = TimerDelay]_vars

\* C30: after every animator tick with elapsed >= 0 the highlighted note
\* index is floor(progress * beatsPerMeasure * loopLength) * tripletsPerBeat:
\* a multiple of tripletsPerBeat between 0 and
\* (beatsPerMeasure * loopLength - 1) * tripletsPerBeat
C30_HighlightIsBeatCell ==
    [][\A f \in frames :
          (LoopTick(f) /\ schedulerCtx /\ audioNow - startTimeRef >= 0) =>
              LET cells == BeatsPerMeasure * loopLengthRef
                  p     == playhead'
              IN  \E beat \in 0..(cells - 1) :
                      /\ highlightNoteIndex' = beat * TripletsPerBeat
                      /\ beat * p[2] <= p[1] * cells
                      /\ p[1] * cells < (beat + 1) * p[2]]_vars

\* a tick inside the last beat of a loop of two measures, not on the beat
C30_Witness ==
    /\ loopOp = "tick"
    /\ schedulerCtx
    /\ loopLengthRef = 2
    /\ highlightNoteIndex = (BeatsPerMeasure * 2 - 1) * TripletsPerBeat
    /\ (playhead[1] * BeatsPerMeasure * 2) % playhead[2] # 0

\* C31: the animator's stop() cancels the pending frame callback, resets the
\* playhead (state and ref) to 0 and the highlighted note index to -1, and
\* is idempotent: a stop() on a stopped animator leaves the same state
C31_LoopStopResetsAndIsIdempotent ==
    [][LoopStop =>
          /\ rafRef' = NoFrame
          /\ rafRef \notin frames'
          /\ playhead' = <<0, 1>>
          /\ playheadRef' = <<0, 1>>
          /\ highlightNoteIndex' = -1
          /\ loopOp \in {"stop", "stopAgain"} =>
                 UNCHANGED <<playhead, playheadRef, highlightNoteIndex, rafRef,
                             frames, retries, startTimeRef, lastLoopCountRef,
                             tempoRef, loopLengthRef, restarts>>]_vars

\* a second stop() in a row, after an animation that had moved the playhead
C31_Witness ==
    /\ loopOp = "stopAgain"
    /\ schedulerCtx
    /\ audioNow > startTimeRef
    /\ lastLoopCountRef > 0
    /\ rafRef = NoFrame

\* a gain's timeline gives 0 from the end of the ramp of stopAllSounds() on
SilentFrom(ev, t0) ==
    \A t \in t0..(MaxAudioTime + RampTime) : t >= audioTime => ValueAt(ev, t) = 0

\* C32: from a stopAllSounds() call until the next restoreVolumes() call both
\* master gains end at 0 and stay at 0, whatever is called in between
\* (setBassVolume, setMetronomeVolume, playSound, playMetronomeClick,
\* playCountdownBeep, resume)
C32_SilentUntilRestored ==
    mutedSince # NoMute =>
        /\ SilentFrom(masterGains.bass, mutedSince + RampTime)
        /\ SilentFrom(masterGains.metronome, mutedSince + RampTime)

\* no beat time appears twice among the beats recorded in recent
BeatTimesDistinct ==
    \A i, j \in 1..Len(recent) : i # j => recent[i].time # recent[j].time

\* C33: at most one driving-timer chain is live at any time: for every
\* sequence of start, startForPlayback and stop calls no two pending
\* scheduler timers coexist and no beat time is emitted twice
C33_OneTimerChain ==
    /\ Cardinality(timers) <= 1
    /\ BeatTimesDistinct

\* C34: after the animator's stop() (isPlaying false) no tick runs and the
\* playhead stays 0 with highlight -1 until the next start(), whatever else
\* happens (time passing, a retry timer of an earlier start() coming due,
\* tempo or loop length changes); and at most one frame callback is pending
\* at any time
C34_NoTickAfterStop ==
    [][/\ Cardinality(frames') <= 1
       /\ (~loopIsPlaying /\ loopOp' \notin {"start", "stop", "stopAgain", "seek"}) =>
              /\ loopOp' # "tick"
              /\ frames' = {}
              /\ rafRef' = NoFrame
              /\ UNCHANGED <<playhead, playheadRef, highlightNoteIndex>>]_vars

\* at most one frame callback is pending
OneFramePending == Cardinality(frames) <= 1

\* the piece time at which beat b is due: the position startForPlayback was
\* given plus the time from the call to the beat's time
PieceTime(b) == b.sess.st + (b.time - b.sess.t0)

\* C35: after startForPlayback(startTime) every emitted click carries the
\* beat index of the piece position at which it sounds: the click due at
\* piece time t (a multiple of secondsPerBeat) has BeatCounter =
\* t / secondsPerBeat, so it is accented exactly when t is the first beat of
\* a bar
C35_ClickCarriesPieceBeat ==
    \A b \in RecentBeats :
        (b.sess.kind = "playback" /\ b.spb = SecondsPerBeat(b.sess.tempo)
                                  /\ b.ts = b.sess.ts) =>
            /\ PieceTime(b) % b.spb = 0
            /\ b.bc = PieceTime(b) \div b.spb
            /\ b.accent <=> ((PieceTime(b) \div b.spb) % b.ts = 0)

\* the beat counter of a playback click is one behind its piece position
PlaybackClickIsOneBehind ==
    \A b \in RecentBeats :
        (b.sess.kind = "playback" /\ b.spb = SecondsPerBeat(b.sess.tempo)
                                  /\ b.ts = b.sess.ts) =>
            /\ PieceTime(b) % b.spb = 0
            /\ b.bc = (PieceTime(b) \div b.spb) - 1

NodeNext ==
    \/ \E st \in ContextStates : AudioInit(st) /\ UNCHANGED nonAudioVars
    \/ AudioResume /\ UNCHANGED nonAudioVars
    \/ \E i \in 1..Len(tasks) : ContextResumed(i) /\ UNCHANGED nonAudioVars
    \/ AudioClose /\ UNCHANGED nonAudioVars
    \/ \E v \in VolumeLevels : SetBassVolume(v) /\ UNCHANGED nonAudioVars
    \/ \E v \in VolumeLevels : SetMetronomeVolume(v) /\ UNCHANGED nonAudioVars
    \/ StopAllSounds /\ UNCHANGED nonAudioVars
    \/ \E lv \in RestoreLevels : RestoreVolumes(lv) /\ UNCHANGED nonAudioVars
    \/ PlaySound(FALSE, SampleBaseFrequency, 0) /\ UNCHANGED nonAudioVars
    \/ PlayMetronomeClick(TRUE, TRUE, TRUE) /\ UNCHANGED nonAudioVars
    \/ PlayCountdownBeep(FALSE) /\ UNCHANGED nonAudioVars

\* the audio service under every operation that reads or writes the
\* context and the master gains
\* (the context's clock at rest)
NodeSpec == AudioInitAll /\ [][NodeNext]_vars

\* C36: after any sequence of AudioService operations the context is
\* non-null if and only if both master gains are non-null, and the gain
\* nodes created by init() stay the same nodes until close(): only close()
\* and the init() that follows it replace them
C36_GainsLiveWithContext ==
    [][/\ (context' # NoContext) <=> (masterGains'.node # 0)
       /\ masterGains'.node # masterGains.node =>
              \/ AudioClose /\ context # NoContext /\ masterGains' = NoGains
              \/ \E st \in ContextStates :
                    AudioInit(st) /\ context = NoContext]_vars

C36_Witness ==
    /\ context # NoContext
    /\ masterGains.node # 0
    /\ audioLast.op = "restoreVolumes"
    /\ restored # NoLevels
    /\ mutedSince = NoMute
    /\ \E i \in 1..Len(tasks) : tasks[i].pc # "done"

\* the countdown number MetronomeControls shows during the pre-roll:
\* {preRollTotal - preRollBeat + 1}
CountdownShown == PreRollTotal(timeSignature) - preRollBeat + 1

\* preRollBeat is the count of pre-roll beats emitted (PreRollCounter), in
\* 0..preRollTotal
PreRollBeatIsCount ==
    isPreRoll => /\ preRollBeat = preRollCountRef
                 /\ preRollBeat \in 0..PreRollTotal(timeSignature)

\* PreRollCounter is below timeSignature * preRollBars between scheduling steps
PreRollCounterBelowTotal ==
    isPreRoll => preRollCountRef < PreRollTotal(timeSignature)

\* the countdown number shown lies in 1..preRollTotal
CountdownShownInRange ==
    isPreRoll => CountdownShown \in 1..PreRollTotal(timeSignature)

\* C37: while isPreRoll is true the published preRollBeat equals the number
\* of pre-roll beats emitted so far and lies in 0..preRollTotal, the
\* PreRollCounter is below timeSignature * preRollBars after every
\* scheduling step, and the countdown number shown
\* (preRollTotal - preRollBeat + 1) lies in 1..preRollTotal
C37_PreRollDisplay ==
    /\ PreRollBeatIsCount
    /\ PreRollCounterBelowTotal
    /\ CountdownShownInRange

\* the beats due in the look-ahead window of a tick: the interval from the
\* old nextBeatTime to now + 0.1 s, in beats, rounded up
BeatsDue(nbt, spb) ==
    IF nbt < now + LookAhead
    THEN ((now + LookAhead - nbt) + spb - 1) \div spb
    ELSE 0

\* C38: every scheduler tick terminates: with a tempo above 0 and any gap
\* since the previous tick the look-ahead loop emits at most one beat per
\* secondsPerBeat of the interval between the old nextBeatTime and
\* now + 0.1 s (rounded up), then exits and re-arms the timer
C38_TickEmitsBoundedBeats ==
    [][\A t \in timers :
          (TimerFires(t) /\ t.c.tempo > 0) =>
              /\ sessBeats' - sessBeats >= 0
              /\ sessBeats' - sessBeats
                     <= BeatsDue(nextBeatTimeRef, SecondsPerBeat(t.c.tempo))
              /\ nextBeatTimeRef' >= now + LookAhead
              /\ \E u \in timers' : u.id = timerIdRef' /\ u.delay = TimerDelay]_vars

C38_Witness ==
    /\ lastOp = "tick"
    /\ Len(recent) >= 2
    /\ ~recent[Len(recent)].first
    /\ nextBeatTimeRef >= now + LookAhead
    /\ timerIdRef \in {t.id : t \in timers}

\* C39: each caching strategy (cacheFirst, networkFirst,
\* networkFirstWithFallback, staleWhileRevalidate) resolves to a Response for
\* every handled request, in every combination of cache hit or miss and
\* network success or failure; it never resolves to undefined
C39_StrategyGivesResponse ==
    swLast.strategy # "none" => swLast.outcome.resolves = "response"

\* the three strategies other than staleWhileRevalidate give a Response
OtherStrategiesGiveResponse ==
    swLast.strategy \in {"cacheFirst", "networkFirst", "networkFirstWithFallback"} =>
        swLast.outcome.resolves = "response"

\* staleWhileRevalidate gives a Response unless the cache misses and the
\* fetch rejects
StaleGivesResponseUnlessBothFail ==
    swLast.strategy = "staleWhileRevalidate" =>
        (swLast.outcome.resolves = "response" <=> (swLast.hit \/ swLast.net # "fails"))

====
